---- MODULE Spec2Model ----
(***************************************************************************)
(* A model of motionEye's request handlers (src/src/handlers.py):          *)
(*   - BaseHandler.get_current_user and the BaseHandler.auth decorator,    *)
(*   - ConfigHandler.get_config and ConfigHandler.set_config (main-only,   *)
(*     single camera and bulk commit with its fan-out / fan-in),           *)
(*   - the per-kind dispatch of a media operation (PictureHandler.list),   *)
(*   - ConfigHandler.list_cameras and ConfigHandler.rem_camera,            *)
(*   - PictureHandler.zipped and PictureHandler.timelapse with the         *)
(*     prepared cache and the time-lapse tracker of mediafiles.            *)
(* Specifications: SpecAuth explores authentication and the guard over     *)
(* broad sets of credentials and request parameters; Spec explores the     *)
(* configuration handlers over a small configuration store; SpecRemote     *)
(* explores the operations dispatched to a remote peer (get_config,        *)
(* set_preview, add_camera, the picture list), their completions, and the  *)
(* removal of a camera; SpecList explores the camera listing; SpecZipped   *)
(* and SpecTimelapse explore the prepared archives and the time-lapse      *)
(* movies with two requests in flight, SpecArtifacts both endpoints over   *)
(* one cache; SpecPicture explores the live picture and its cache;         *)
(* SpecRelay the relayed motion events; SpecNormal every writing handler   *)
(* requested without the admin role; SpecMirror a listing interleaved      *)
(* with a set_config; SpecListFair the listing under fair completions.     *)
(***************************************************************************)
EXTENDS Naturals, Integers, Sequences, FiniteSets, TLC

VARIABLES
    main,       \* config.get_main(): the main configuration record
    cameras,    \* config.get_camera(id) for id in 1..NumCams (Absent: no such id)
    settings,   \* settings.ENABLE_REBOOT, settings.SMB_SHARES
    areq,       \* the request being served: its authentication parameters
    user,       \* self.current_user of the request being served
    authLogged, \* whether get_current_user logged an authentication failure
    guard,      \* the auth decorator's last decision
    st,         \* ConfigHandler.set_config: the closure state of the call
    pending,    \* remote calls in flight, each owing exactly one completion
    log,        \* collaborator calls of the request, in program order
    response,   \* what the request has sent to the client
    job,        \* mediafiles: the process-wide time-lapse job tracker
    cache,      \* mediafiles: the prepared (artifact) cache, key -> bytes
    peer,       \* the time-lapse job tracker of the remote peer
    reqs,       \* the media requests being served concurrently
    pictures,   \* mediafiles: the live-picture cache, (id, seq, width) -> bytes
    detected    \* motionctl._motion_detected: camera id -> flag

vars == <<main, cameras, settings, areq, user, authLogged, guard, st, pending,
          log, response, job, cache, peer, reqs, pictures, detected>>

\* the state of the media store and of the media requests
mediaVars == <<job, cache, peer, reqs>>

\* the live-picture cache and the motion-detected flags
liveVars == <<pictures, detected>>

(***************************************************************************)
(* Values                                                                  *)
(***************************************************************************)
None == "<none>"           \* Python's None where a string is expected
NoSignature == <<>>        \* no _signature argument
NoResponse == [kind |-> "none"]

\* Python truthiness of an optional string: None and '' are false
Falsy(s) == s = None \/ s = ""

\* the media requests that may be in flight at once
RIds == {1, 2}

\* a request slot nobody uses
IdleReq == [phase |-> "idle", op |-> "none", camera_id |-> 0, key |-> 0]

\* mediafiles after import: no job, an empty prepared cache; no request
MediaInit ==
    /\ job = [progress |-> -1, data |-> None, camera_id |-> 0, gen |-> 0]
    /\ cache = <<>>
    /\ peer = [progress |-> -1, data |-> None]
    /\ reqs = [r \in RIds |-> IdleReq]
    /\ pictures = <<>>
    /\ detected = <<>>

(***************************************************************************)
(* Signature Authenticator                                                 *)
(***************************************************************************)
\* utils.compute_signature: a keyed digest of (method, uri, body); modelled as
\* an ideal (collision-free) digest
compute_signature(method, uri, body, key) == <<method, uri, body, key>>

\* variant: the admin branch does not compare the username
get_current_user_any_username(mc, method, uri, body, username, signature, login) ==
    IF signature = compute_signature(method, uri, body, mc.admin_password)
    THEN [role |-> "admin", logged |-> FALSE]
    ELSE IF Falsy(username) /\ Falsy(mc.normal_password)
    THEN [role |-> "normal", logged |-> FALSE]
    ELSE IF /\ username = mc.normal_username
            /\ signature = compute_signature(method, uri, body, mc.normal_password)
    THEN [role |-> "normal", logged |-> FALSE]
    ELSE [role |-> None,
          logged |-> (~Falsy(username) /\ username # "_" /\ login)]

\* variant: the open-access branch is missing
get_current_user_no_open_access(mc, method, uri, body, username, signature, login) ==
    IF /\ username = mc.admin_username
       /\ signature = compute_signature(method, uri, body, mc.admin_password)
    THEN [role |-> "admin", logged |-> FALSE]
    ELSE IF /\ username = mc.normal_username
            /\ signature = compute_signature(method, uri, body, mc.normal_password)
    THEN [role |-> "normal", logged |-> FALSE]
    ELSE [role |-> None,
          logged |-> (~Falsy(username) /\ username # "_" /\ login)]

\* variant: the normal branch does not compare the signature
get_current_user_no_normal_signature(mc, method, uri, body, username, signature, login) ==
    IF /\ username = mc.admin_username
       /\ signature = compute_signature(method, uri, body, mc.admin_password)
    THEN [role |-> "admin", logged |-> FALSE]
    ELSE IF Falsy(username) /\ Falsy(mc.normal_password)
    THEN [role |-> "normal", logged |-> FALSE]
    ELSE IF username = mc.normal_username
    THEN [role |-> "normal", logged |-> FALSE]
    ELSE [role |-> None,
          logged |-> (~Falsy(username) /\ username # "_" /\ login)]

\* variant: the admin signature is not computed over the body
get_current_user_unsigned_body(mc, method, uri, body, username, signature, login) ==
    IF /\ username = mc.admin_username
       /\ signature = compute_signature(method, uri, "", mc.admin_password)
    THEN [role |-> "admin", logged |-> FALSE]
    ELSE IF Falsy(username) /\ Falsy(mc.normal_password)
    THEN [role |-> "normal", logged |-> FALSE]
    ELSE IF /\ username = mc.normal_username
            /\ signature = compute_signature(method, uri, body, mc.normal_password)
    THEN [role |-> "normal", logged |-> FALSE]
    ELSE [role |-> None,
          logged |-> (~Falsy(username) /\ username # "_" /\ login)]

\* BaseHandler.get_current_user: the role, and whether the failure is logged
get_current_user(mc, method, uri, body, username, signature, login) ==
    IF /\ username = mc.admin_username
       /\ signature = compute_signature(method, uri, body, mc.admin_password)
    THEN [role |-> "admin", logged |-> FALSE]
    ELSE IF Falsy(username) /\ Falsy(mc.normal_password)
    THEN [role |-> "normal", logged |-> FALSE]
    ELSE IF /\ username = mc.normal_username
            /\ signature = compute_signature(method, uri, body, mc.normal_password)
    THEN [role |-> "normal", logged |-> FALSE]
    ELSE [role |-> None,
          logged |-> (~Falsy(username) /\ username # "_" /\ login)]

\* variant: the inline _admin request is ignored
auth_ignores_inline_admin(role, admin, inline_admin) ==
    ~((role = None) \/ (role # "admin" /\ admin))

\* BaseHandler.auth wrapper: TRUE when the wrapped function is called
auth(role, admin, inline_admin) ==
    ~((role = None) \/ (role # "admin" /\ (admin \/ inline_admin)))

\* the wrapper's rejection payload
Unauthorized(prompt) ==
    [kind |-> "json", error |-> "unauthorized", prompt |-> prompt]

(***************************************************************************)
(* Configuration store and settings: the defaults after construction       *)
(***************************************************************************)
DefaultMain ==
    [admin_username |-> "admin", admin_password |-> "",
     normal_username |-> "user", normal_password |-> "", sys |-> 0]

NoRequest ==
    [phase |-> "idle", method |-> "", uri |-> "", body |-> "", username |-> None,
     signature |-> NoSignature, login |-> FALSE]

NoGuard ==
    [ran |-> FALSE, admin |-> FALSE, prompt |-> FALSE, inline_admin |-> FALSE,
     executed |-> FALSE]

(***************************************************************************)
(* Spec: the configuration handlers over a small configuration store       *)
(***************************************************************************)
MaxItems == 2              \* most entries of one bulk update mapping

CamIds == {1, 2}
Passwords == {"", "pa"}
ClientUsernames == {None, "admin", "user"}
RemoteErrors == {None, "timeout"}

\* the camera kinds a deployment may hold under ids 1 and 2
CameraSetups ==
    {f \in [CamIds -> {"absent", "local", "remote", "unsupported"}] :
        f[1] # "absent" /\ f[2] # "unsupported"}

Camera(proto, enabled) == [proto |-> proto, enabled |-> enabled]
NoCamera == Camera("absent", FALSE)

\* config.get_camera_ids()
get_camera_ids(cams) == {i \in DOMAIN cams : cams[i].proto # "absent"}

\* utils.local_motion_camera / utils.remote_camera: the Camera Kind Classifier
local_motion_camera(c) == c.proto = "local"
remote_camera(c) == c.proto = "remote"

\* the keys of a bulk update mapping and int(key)
BulkKeys == {"main", "1", "2"}
int(key) == CASE key = "0" -> 0 [] key = "1" -> 1 [] key = "2" -> 2
IdStr(i) == CASE i = 1 -> "1" [] i = 2 -> "2" [] OTHER -> "main"

\* request payloads (json.loads(self.request.body))
MainPayloads ==
    [admin_username : {"admin"}, admin_password : Passwords,
     normal_username : {"user"}, normal_password : Passwords, sys : {0, 1}]
CameraPayloads == [enabled : BOOLEAN, name : {None, "cam"}]
PayloadFor(key) == IF key = "main" THEN MainPayloads ELSE CameraPayloads

\* config.main_ui_to_dict
main_ui_to_dict(ui) ==
    [admin_username |-> ui.admin_username, admin_password |-> ui.admin_password,
     normal_username |-> ui.normal_username,
     normal_password |-> ui.normal_password, sys |-> ui.sys]

\* config.camera_ui_to_dict(ui_config, local_config)
camera_ui_to_dict(ui, lc) == [lc EXCEPT !.enabled = ui.enabled]

\* config.camera_dict_to_ui(local_config)
camera_dict_to_ui(lc) == [enabled |-> lc.enabled, name |-> "cam"]

\* '%s:%s' % (username, password)
Credentials(username, password) == username \o ":" \o password

\* the closure state of a handler call; processed, completed, anyRestart,
\* anyError, changed (the main-config fields the call changed) and payloads
\* (the payloads processed for remote cameras) are history kept for the
\* properties
NewCall(op, mode, camera_id, keys) ==
    [phase |-> "returned", op |-> op, mode |-> mode, camera_id |-> camera_id,
     keys |-> keys, nitems |-> Len(keys), so_far |-> 0,
     reload |-> FALSE, reboot |-> FALSE, restart |-> FALSE, error |-> None,
     finalized |-> 0, raised |-> FALSE,
     processed |-> {}, completed |-> {}, anyRestart |-> FALSE, anyError |-> FALSE,
     changed |-> {}, payloads |-> {}, entries |-> <<>>, length |-> 0]

\* the working state of a handler while it runs
Ctx(call) ==
    [main |-> main, cameras |-> cameras, pending |-> pending, log |-> <<>>,
     response |-> NoResponse, st |-> call]

Call(k, item, op, id, arg) ==
    [k EXCEPT !.log = Append(@, [item |-> item, op |-> op, id |-> id, arg |-> arg])]

\* RequestHandler.finish / finish_json
Respond(k, r) == [k EXCEPT !.response = r]

\* what config.get_camera(camera_id) does for an id that is not in the store
MissingOutcomes == {"raises", "none"}

\* an exception other than HTTPError reaches _handle_request_exception
InternalError(k) ==
    [k EXCEPT !.st.raised = TRUE,
              !.response = [kind |-> "json_error",
                            error |-> <<"internal server error">>]]

\* raise HTTPError(status, message), answered by _handle_request_exception
Raise(k, status, message) ==
    [k EXCEPT !.st.raised = TRUE,
              !.response = [kind |-> "http_error", status |-> status,
                            error |-> message]]

\* what an item reported when it completed (history kept for the properties)
Note(k, item, e, r) ==
    [Call(k, item, "completed", 0, r) EXCEPT
        !.st.completed = @ \cup {item},
        !.st.anyRestart = @ \/ r,
        !.st.anyError = @ \/ (e # None)]

\* variant: the reboot branch does not return before the restart branch
finish_reboot_falls_through(k, smb_start) ==
    LET s == k.st
        k0 == [Call(k, "", "finish", 0, TRUE) EXCEPT !.st.finalized = @ + 1]
        r == s.reboot /\ settings.ENABLE_REBOOT
        k1 == IF r THEN Call(k0, "", "add_timeout(2s, powerctl.reboot)", 0, TRUE)
              ELSE [k0 EXCEPT !.st.reboot = FALSE]
        k2 == IF ~s.restart THEN k1
              ELSE LET a == Call(k1, "", "motionctl.stop", 0, TRUE)
                   IN  IF settings.SMB_SHARES
                       THEN LET b == Call(a, "", "smbctl.update_mounts", 0, smb_start)
                            IN  IF smb_start
                                THEN Call(b, "", "motionctl.start", 0, TRUE)
                                ELSE b
                       ELSE Call(a, "", "motionctl.start", 0, TRUE)
    IN  Respond(k2, [kind |-> "outcome", reload |-> IF r THEN FALSE ELSE s.reload,
                     reboot |-> r, error |-> IF r THEN None ELSE s.error])

\* variant: the daemon is started whatever smbctl.update_mounts answers
finish_always_starts(k, smb_start) ==
    LET s == k.st
        k0 == [Call(k, "", "finish", 0, TRUE) EXCEPT !.st.finalized = @ + 1]
    IN  IF s.reboot /\ settings.ENABLE_REBOOT
        THEN Respond(Call(k0, "", "add_timeout(2s, powerctl.reboot)", 0, TRUE),
                     [kind |-> "outcome", reload |-> FALSE, reboot |-> TRUE,
                      error |-> None])
        ELSE LET k1 == [k0 EXCEPT !.st.reboot = FALSE]
                 k2 == IF ~s.restart THEN k1
                       ELSE LET a == Call(k1, "", "motionctl.stop", 0, TRUE)
                                b == IF settings.SMB_SHARES
                                     THEN Call(a, "", "smbctl.update_mounts", 0,
                                               smb_start)
                                     ELSE a
                            IN  Call(b, "", "motionctl.start", 0, TRUE)
             IN  Respond(k2, [kind |-> "outcome", reload |-> s.reload,
                              reboot |-> FALSE, error |-> s.error])

\* ConfigHandler.set_config.finish; smb_start is what smbctl.update_mounts
\* answers for "start"
finish(k, smb_start) ==
    LET s == k.st
        k0 == [Call(k, "", "finish", 0, TRUE) EXCEPT !.st.finalized = @ + 1]
    IN  IF s.reboot /\ settings.ENABLE_REBOOT
        THEN Respond(Call(k0, "", "add_timeout(2s, powerctl.reboot)", 0, TRUE),
                     [kind |-> "outcome", reload |-> FALSE, reboot |-> TRUE,
                      error |-> None])
        ELSE LET k1 == [k0 EXCEPT !.st.reboot = FALSE]
                 k2 == IF ~s.restart THEN k1
                       ELSE LET a == Call(k1, "", "motionctl.stop", 0, TRUE)
                            IN  IF settings.SMB_SHARES
                                THEN LET b == Call(a, "", "smbctl.update_mounts", 0,
                                                   smb_start)
                                     IN  IF smb_start
                                         THEN Call(b, "", "motionctl.start", 0, TRUE)
                                         ELSE b
                                ELSE Call(a, "", "motionctl.start", 0, TRUE)
             IN  Respond(k2, [kind |-> "outcome", reload |-> s.reload,
                              reboot |-> FALSE, error |-> s.error])

\* variant: the fan-in finishes one completion early
check_finished_early(k, e, r, smb_start) ==
    LET k1 == [k EXCEPT !.st.restart = @ \/ r,
                        !.st.error = IF @ # None THEN @ ELSE e,
                        !.st.so_far = @ + 1]
    IN  IF k1.st.so_far >= k1.st.nitems - 1 THEN finish(k1, smb_start) ELSE k1

\* ConfigHandler.set_config.check_finished
\* variant: an item's restart signal is accumulated into reboot as well
check_finished_reboots(k, e, r, smb_start) ==
    LET k1 == [k EXCEPT !.st.restart = @ \/ r,
                        !.st.reboot = @ \/ r,
                        !.st.error = IF @ # None THEN @ ELSE e,
                        !.st.so_far = @ + 1]
    IN  IF k1.st.so_far >= k1.st.nitems THEN finish(k1, smb_start) ELSE k1

check_finished(k, e, r, smb_start) ==
    LET k1 == [k EXCEPT !.st.restart = @ \/ r,
                        !.st.error = IF @ # None THEN @ ELSE e,
                        !.st.so_far = @ + 1]
    IN  IF k1.st.so_far >= k1.st.nitems THEN finish(k1, smb_start) ELSE k1

\* ConfigHandler.set_config.on_finish (single camera config)
on_finish(k, e, r, smb_start) ==
    finish([k EXCEPT !.st.error = e, !.st.restart = r], smb_start)

\* the completion callback handed to set_camera_config
Completed(k, item, e, r, smb_start) ==
    IF k.st.mode = "bulk"
    THEN check_finished(Note(k, item, e, r), e, r, smb_start)
    ELSE on_finish(Note(k, item, e, r), e, r, smb_start)

\* variant: a local camera asks for a restart only when its config changed
set_camera_config_restart_on_change(k, item, camera_id, ui, smb_start) ==
    LET k0 == [k EXCEPT !.st.processed = @ \cup {item}]
    IN  IF camera_id \notin get_camera_ids(k.cameras)
        THEN Raise(k0, 404, "no such camera")
        ELSE
        LET lc == k0.cameras[camera_id]
            k1 == Call(k0, item, "config.get_camera", camera_id, lc.enabled)
        IN  IF local_motion_camera(lc)
            THEN LET new == camera_ui_to_dict(ui, lc)
                     k2 == Call([k1 EXCEPT !.cameras[camera_id] = new],
                                item, "config.set_camera", camera_id, new.enabled)
                 IN  Completed(k2, item, None, new # lc, smb_start)
            ELSE IF remote_camera(lc)
            THEN LET new == [lc EXCEPT !.enabled = ui.enabled]
                     k2 == Call([k1 EXCEPT !.cameras[camera_id] = new,
                                           !.st.payloads = @ \cup
                                              {[key |-> item, cfg |-> ui]}],
                                item, "config.set_camera", camera_id, new.enabled)
                 IN  IF ui.name # None
                     THEN LET pushed == [ui EXCEPT !.enabled = TRUE]
                              k3 == Call(k2, item, "remote.set_config", camera_id,
                                         pushed.enabled)
                          IN  [k3 EXCEPT !.pending = @ \cup
                                  {[op |-> "set_config", id |-> camera_id,
                                    item |-> item]}]
                     ELSE Completed(k2, item, None, FALSE, smb_start)
            ELSE k1

\* variant: ui_config['enabled'] is pushed to the peer as received
set_camera_config_pushes_enabled(k, item, camera_id, ui, smb_start) ==
    LET k0 == [k EXCEPT !.st.processed = @ \cup {item}]
    IN  IF camera_id \notin get_camera_ids(k.cameras)
        THEN Raise(k0, 404, "no such camera")
        ELSE
        LET lc == k0.cameras[camera_id]
            k1 == Call(k0, item, "config.get_camera", camera_id, lc.enabled)
        IN  IF local_motion_camera(lc)
            THEN LET new == camera_ui_to_dict(ui, lc)
                     k2 == Call([k1 EXCEPT !.cameras[camera_id] = new],
                                item, "config.set_camera", camera_id, new.enabled)
                 IN  Completed(k2, item, None, TRUE, smb_start)
            ELSE IF remote_camera(lc)
            THEN LET new == [lc EXCEPT !.enabled = ui.enabled]
                     k2 == Call([k1 EXCEPT !.cameras[camera_id] = new,
                                           !.st.payloads = @ \cup
                                              {[key |-> item, cfg |-> ui]}],
                                item, "config.set_camera", camera_id, new.enabled)
                 IN  IF ui.name # None
                     THEN LET pushed == ui
                              k3 == Call(k2, item, "remote.set_config", camera_id,
                                         pushed.enabled)
                          IN  [k3 EXCEPT !.pending = @ \cup
                                  {[op |-> "set_config", id |-> camera_id,
                                    item |-> item]}]
                     ELSE Completed(k2, item, None, FALSE, smb_start)
            ELSE k1

\* ConfigHandler.set_config.set_camera_config
set_camera_config(k, item, camera_id, ui, smb_start) ==
    LET k0 == [k EXCEPT !.st.processed = @ \cup {item}]
    IN  IF camera_id \notin get_camera_ids(k.cameras)
        THEN Raise(k0, 404, "no such camera")
        ELSE
        LET lc == k0.cameras[camera_id]
            k1 == Call(k0, item, "config.get_camera", camera_id, lc.enabled)
        IN  IF local_motion_camera(lc)
            THEN LET new == camera_ui_to_dict(ui, lc)
                     k2 == Call([k1 EXCEPT !.cameras[camera_id] = new],
                                item, "config.set_camera", camera_id, new.enabled)
                 IN  Completed(k2, item, None, TRUE, smb_start)
            ELSE IF remote_camera(lc)
            THEN LET new == [lc EXCEPT !.enabled = ui.enabled]
                     k2 == Call([k1 EXCEPT !.cameras[camera_id] = new,
                                           !.st.payloads = @ \cup
                                              {[key |-> item, cfg |-> ui]}],
                                item, "config.set_camera", camera_id, new.enabled)
                 IN  IF ui.name # None
                     THEN LET pushed == [ui EXCEPT !.enabled = TRUE]
                              k3 == Call(k2, item, "remote.set_config", camera_id,
                                         pushed.enabled)
                          IN  [k3 EXCEPT !.pending = @ \cup
                                  {[op |-> "set_config", id |-> camera_id,
                                    item |-> item]}]
                     ELSE Completed(k2, item, None, FALSE, smb_start)
            ELSE k1

IdleCall == [NewCall("none", "none", 0, <<>>) EXCEPT !.phase = "idle"]

RECURSIVE Ascending(_)
\* the ids of a set in ascending order
Ascending(S) ==
    IF S = {} THEN <<>>
    ELSE LET m == CHOOSE x \in S : \A y \in S : x <= y
         IN  <<m>> \o Ascending(S \ {m})

\* variant: the loop over the camera ids ends after the first local camera
Reconfigure_first_only(k, item, ids) ==
    LET local == SelectSeq(ids, LAMBDA i : local_motion_camera(k.cameras[i]))
    IN  IF local = <<>> THEN [k |-> k, restart |-> FALSE]
        ELSE LET camera_id == Head(local)
                 lc == k.cameras[camera_id]
                 k1 == Call(k, item, "config.get_camera", camera_id, lc.enabled)
                 new == camera_ui_to_dict(camera_dict_to_ui(lc), lc)
                 k2 == Call([k1 EXCEPT !.cameras[camera_id] = new],
                            item, "config.set_camera", camera_id, new.enabled)
             IN  [k |-> k2, restart |-> TRUE]

RECURSIVE Reconfigure(_, _, _)
\* set_main_config: "reconfigure all local cameras to update the stream
\* authentication options"; answers the working state and the restart flag
Reconfigure(k, item, ids) ==
    IF ids = <<>> THEN [k |-> k, restart |-> FALSE]
    ELSE LET camera_id == Head(ids)
             lc == k.cameras[camera_id]
             k1 == Call(k, item, "config.get_camera", camera_id, lc.enabled)
         IN  IF ~local_motion_camera(lc)
             THEN Reconfigure(k1, item, Tail(ids))
             ELSE LET new == camera_ui_to_dict(camera_dict_to_ui(lc), lc)
                      k2 == Call([k1 EXCEPT !.cameras[camera_id] = new],
                                 item, "config.set_camera", camera_id, new.enabled)
                      rest == Reconfigure(k2, item, Tail(ids))
                  IN  [k |-> rest.k, restart |-> TRUE]

\* the main-config fields whose value differs between two records (history
\* kept for the properties)
Changed(old, new) == {f \in DOMAIN old : old[f] # new[f]}

\* variant: '@admin_password' is not appended to reboot_config_names
set_main_config_ignores_password(k, item, ui) ==
    LET old_main_config == k.main
        k0 == Call([k EXCEPT !.st.processed = @ \cup {item},
                             !.st.changed = Changed(old_main_config,
                                                    main_ui_to_dict(ui))],
                   item, "config.get_main", 0, TRUE)
        old_admin_credentials ==
            Credentials(old_main_config.admin_username, old_main_config.admin_password)
        old_normal_credentials ==
            Credentials(old_main_config.normal_username, old_main_config.normal_password)
        main_config == main_ui_to_dict(ui)
        admin_credentials ==
            Credentials(main_config.admin_username, main_config.admin_password)
        normal_credentials ==
            Credentials(main_config.normal_username, main_config.normal_password)
        \* reboot_config_names: one additional config flagged reboot
        reboot == old_main_config.sys # main_config.sys
        k1 == Call([k0 EXCEPT !.main = main_config], item, "config.set_main", 0, TRUE)
        reload == admin_credentials # old_admin_credentials
        rec == IF normal_credentials # old_normal_credentials
               THEN Reconfigure(k1, item, Ascending(get_camera_ids(k1.cameras)))
               ELSE [k |-> k1, restart |-> FALSE]
    IN  [k |-> rec.k, reload |-> reload,
         reboot |-> (reboot /\ settings.ENABLE_REBOOT), restart |-> rec.restart]

\* ConfigHandler.set_config.set_main_config: the working state after it and
\* the {reload, reboot, restart} it returns
set_main_config(k, item, ui) ==
    LET old_main_config == k.main
        k0 == Call([k EXCEPT !.st.processed = @ \cup {item},
                             !.st.changed = Changed(old_main_config,
                                                    main_ui_to_dict(ui))],
                   item, "config.get_main", 0, TRUE)
        old_admin_credentials ==
            Credentials(old_main_config.admin_username, old_main_config.admin_password)
        old_normal_credentials ==
            Credentials(old_main_config.normal_username, old_main_config.normal_password)
        main_config == main_ui_to_dict(ui)
        admin_credentials ==
            Credentials(main_config.admin_username, main_config.admin_password)
        normal_credentials ==
            Credentials(main_config.normal_username, main_config.normal_password)
        \* reboot_config_names: one additional config flagged reboot, '@admin_password'
        reboot == \/ old_main_config.sys # main_config.sys
                  \/ old_main_config.admin_password # main_config.admin_password
        k1 == Call([k0 EXCEPT !.main = main_config], item, "config.set_main", 0, TRUE)
        reload == admin_credentials # old_admin_credentials
        rec == IF normal_credentials # old_normal_credentials
               THEN Reconfigure(k1, item, Ascending(get_camera_ids(k1.cameras)))
               ELSE [k |-> k1, restart |-> FALSE]
    IN  [k |-> rec.k, reload |-> reload,
         reboot |-> (reboot /\ settings.ENABLE_REBOOT), restart |-> rec.restart]

\* variant: the items are processed in the mapping's own order
MainFirst_unsorted(items) == items

\* items.sort(key=lambda (key, cfg): key != 'main'): a stable sort
MainFirst(items) ==
    SelectSeq(items, LAMBDA it : it.key = "main") \o
    SelectSeq(items, LAMBDA it : it.key # "main")

RECURSIVE ProcessItems(_, _, _)
\* the loop "for key, cfg in items" of the bulk branch; an exception ends it
ProcessItems(k, items, smb_start) ==
    IF items = <<>> \/ k.st.raised THEN k
    ELSE LET it == Head(items)
             k1 == IF it.key = "main"
                   THEN LET result == set_main_config(k, it.key, it.cfg)
                            reload == result.reload \/ k.st.reload
                            k2 == [result.k EXCEPT
                                     !.st.reload = reload,
                                     !.st.reboot = result.reboot \/ @,
                                     !.st.restart = result.restart \/ @]
                        IN  check_finished(Note(k2, it.key, None, result.restart),
                                           None, reload, smb_start)
                   ELSE set_camera_config(k, it.key, int(it.key), it.cfg, smb_start)
         IN  ProcessItems(k1, Tail(items), smb_start)

\* the update mappings of at most MaxItems entries, in every insertion order
BulkMappings ==
    {items \in UNION {[1..n -> [key : BulkKeys, cfg : MainPayloads \cup CameraPayloads]] :
                          n \in 0..MaxItems} :
        /\ \A i \in DOMAIN items : items[i].cfg \in PayloadFor(items[i].key)
        /\ \A i, j \in DOMAIN items : i # j => items[i].key # items[j].key}

Keys(items) == [i \in DOMAIN items |-> items[i].key]


(***************************************************************************)
(* Spec: actions                                                           *)
(***************************************************************************)
Init ==
    /\ main = DefaultMain
    /\ \E setup \in CameraSetups :
          cameras = [i \in CamIds |-> Camera(setup[i], setup[i] # "absent")]
    /\ settings \in [ENABLE_REBOOT : BOOLEAN, SMB_SHARES : BOOLEAN]
    /\ areq = NoRequest
    /\ user = None
    /\ authLogged = FALSE
    /\ guard = NoGuard
    /\ st = IdleCall
    /\ pending = {}
    /\ log = <<>>
    /\ response = NoResponse
    /\ MediaInit

\* the role of a request the client signed with `key`
Role(method, uri, body, username, key) ==
    get_current_user(main, method, uri, body, username,
                     compute_signature(method, uri, body, key), FALSE).role

\* the payloads drawn for a request: every one of S for a client that holds
\* the admin credentials, a single one for a client the guard turns away
\* before the payload is read
Offered(username, key, S, one) ==
    IF Role("POST", "/config", "", username, key) = "admin" THEN S ELSE {one}

OneMainPayload == CHOOSE x \in MainPayloads : TRUE
OneCameraPayload == CHOOSE x \in CameraPayloads : TRUE
OneBulkMapping == CHOOSE x \in BulkMappings : Len(x) = 1

\* what smbctl.update_mounts may answer for "start"
SmbAnswers == IF settings.SMB_SHARES THEN BOOLEAN ELSE {FALSE}

\* the handler returns to the IOLoop: its effects become the state
Return(k, role) ==
    /\ main' = k.main
    /\ cameras' = k.cameras
    /\ pending' = k.pending
    /\ log' = k.log
    /\ response' = k.response
    /\ st' = k.st
    /\ user' = role
    /\ UNCHANGED <<settings, areq, authLogged, guard>>
    /\ UNCHANGED mediaVars
    /\ UNCHANGED liveVars

\* the auth wrapper's rejection: func is not called
Reject(call, role, prompt) ==
    Return(Respond(Ctx(call), Unauthorized(prompt)), role)

\* the working state of a completion callback of the request being served
Resume(p) ==
    [main |-> main, cameras |-> cameras, pending |-> pending \ {p}, log |-> log,
     response |-> response, st |-> st]

\* POST /config/main/set: ConfigHandler.set_config(None)
SetMainConfig(username, key, ui) ==
    /\ st.phase = "idle"
    /\ LET role == Role("POST", "/config/main/set", ui, username, key)
           call == NewCall("set_config", "main", 0, <<"main">>)
       IN  IF ~auth(role, TRUE, FALSE) THEN Reject(call, role, TRUE)
           ELSE LET result == set_main_config(Ctx(call), "main", ui)
                IN  Return([result.k EXCEPT !.st.reload = result.reload,
                                            !.st.reboot = result.reboot,
                                            !.st.restart = result.restart], role)

\* POST /config/<camera_id>/set with camera_id # 0: a single camera config
SetCameraConfig(username, key, camera_id, ui, smb_start) ==
    /\ st.phase = "idle"
    /\ LET role == Role("POST", "/config/" \o IdStr(camera_id) \o "/set", ui,
                        username, key)
           call == NewCall("set_config", "single", camera_id, <<IdStr(camera_id)>>)
       IN  IF ~auth(role, TRUE, FALSE) THEN Reject(call, role, TRUE)
           ELSE Return(set_camera_config(Ctx(call), IdStr(camera_id), camera_id, ui,
                                         smb_start), role)

\* POST /config/0/set: multiple camera configs (the bulk commit)
SetBulkConfig(username, key, ui_config, smb_start) ==
    /\ st.phase = "idle"
    /\ LET role == Role("POST", "/config/0/set", ui_config, username, key)
           call == NewCall("set_config", "bulk", 0, Keys(ui_config))
       IN  IF ~auth(role, TRUE, FALSE) THEN Reject(call, role, TRUE)
           ELSE LET k == IF Len(ui_config) = 0
                         THEN Respond(Ctx(call), [kind |-> "empty"])
                         ELSE Ctx(call)
                IN  Return(ProcessItems(k, MainFirst(ui_config), smb_start), role)

\* remote.set_config calls back on_finish_wrapper(error)
SetConfigCompletion(p, error, smb_start) ==
    /\ p \in pending
    /\ p.op = "set_config"
    /\ Return(Completed(Resume(p), p.item, error, FALSE, smb_start), user)

\* GET /config/<camera_id>/get and /config/main/get: ConfigHandler.get_config
GetConfig(username, key, camera_id) ==
    /\ st.phase = "idle"
    /\ LET role == Role("GET", "/config/" \o IdStr(camera_id) \o "/get", "",
                        username, key)
           call == NewCall("get_config", "single", camera_id, <<>>)
           k == Ctx(call)
       IN  IF ~auth(role, TRUE, FALSE) THEN Reject(call, role, TRUE)
           ELSE IF camera_id = 0
           THEN Return(Respond(Call(k, "", "config.get_main", 0, TRUE),
                               [kind |-> "json", body |-> "main config"]), role)
           ELSE IF camera_id \notin get_camera_ids(cameras)
           THEN Return(Raise(k, 404, "no such camera"), role)
           ELSE LET lc == cameras[camera_id]
                    k1 == Call(k, "", "config.get_camera", camera_id, lc.enabled)
                IN  IF local_motion_camera(lc)
                    THEN Return(Respond(k1, [kind |-> "json",
                                             body |-> "camera config"]), role)
                    ELSE IF remote_camera(lc)
                    THEN Return([Call(k1, "", "remote.get_config", camera_id, TRUE)
                                   EXCEPT !.pending = @ \cup
                                     {[op |-> "get_config", id |-> camera_id,
                                       item |-> ""]}], role)
                    ELSE Return(k1, role)

\* remote.get_config calls back on_response(remote_ui_config, error)
GetConfigCompletion(p, error) ==
    /\ p \in pending
    /\ p.op = "get_config"
    /\ Return(Respond(Resume(p),
                      IF error # None
                      THEN [kind |-> "json_error",
                            error |-> <<"Failed to get remote camera configuration for",
                                        p.id, error>>]
                      ELSE [kind |-> "json", body |-> "camera config"]), user)

\* GET /picture/<camera_id>/list: PictureHandler.get and PictureHandler.list
PictureList(username, key, inline_admin, camera_id) ==
    /\ st.phase = "idle"
    /\ LET role == Role("GET", "/picture/" \o IdStr(camera_id) \o "/list", "",
                        username, key)
           call == NewCall("picture_list", "single", camera_id, <<>>)
           k == Ctx(call)
       IN  IF camera_id \notin get_camera_ids(cameras)
           THEN Return(Raise(k, 404, "no such camera"), role)
           ELSE IF ~auth(role, FALSE, inline_admin) THEN Reject(call, role, TRUE)
           ELSE LET lc == cameras[camera_id]
                    k1 == Call(k, "", "config.get_camera", camera_id, lc.enabled)
                IN  IF local_motion_camera(lc)
                    THEN Return([Call(k1, "", "mediafiles.list_media", camera_id, TRUE)
                                   EXCEPT !.pending = @ \cup
                                     {[op |-> "mediafiles.list_media",
                                       id |-> camera_id, item |-> ""]}], role)
                    ELSE IF remote_camera(lc)
                    THEN Return([Call(k1, "", "remote.list_media", camera_id, TRUE)
                                   EXCEPT !.pending = @ \cup
                                     {[op |-> "remote.list_media",
                                       id |-> camera_id, item |-> ""]}], role)
                    ELSE Return(Raise(k1, 400, "unknown operation"), role)

\* mediafiles.list_media calls back on_media_list(media_list);
\* remote.list_media calls back on_response(remote_list, error)
ListMediaCompletion(p, error) ==
    /\ p \in pending
    /\ p.op \in {"mediafiles.list_media", "remote.list_media"}
    /\ Return(Respond(Resume(p),
                      IF error = None THEN [kind |-> "json", body |-> "media list"]
                      ELSE IF p.op = "mediafiles.list_media"
                      THEN [kind |-> "json_error",
                            error |-> <<"Failed to get pictures list.">>]
                      ELSE [kind |-> "json_error",
                            error |-> <<"Failed to get picture list for",
                                        p.id, error>>]), user)

\* the request is over (answered, or given up by the client once nothing is
\* in flight); the next request is served by a fresh handler object
EndRequest ==
    /\ st.phase = "returned"
    /\ pending = {}
    /\ st' = IdleCall
    /\ log' = <<>>
    /\ response' = NoResponse
    /\ user' = None
    /\ UNCHANGED <<main, cameras, settings, areq, authLogged, guard, pending>>
    /\ UNCHANGED mediaVars
    /\ UNCHANGED liveVars

Next ==
    \/ /\ st.phase = "idle"
       /\ \E username \in ClientUsernames, key \in Passwords :
             \E ui \in Offered(username, key, MainPayloads, OneMainPayload) :
                SetMainConfig(username, key, ui)
    \/ /\ st.phase = "idle"
       /\ \E username \in ClientUsernames, key \in Passwords, camera_id \in CamIds,
             smb_start \in SmbAnswers :
             \E ui \in Offered(username, key, CameraPayloads, OneCameraPayload) :
                SetCameraConfig(username, key, camera_id, ui, smb_start)
    \/ /\ st.phase = "idle"
       /\ \E username \in ClientUsernames, key \in Passwords,
             smb_start \in SmbAnswers :
             \E ui_config \in Offered(username, key, BulkMappings, OneBulkMapping) :
                SetBulkConfig(username, key, ui_config, smb_start)
    \/ \E p \in pending, error \in RemoteErrors, smb_start \in SmbAnswers :
          SetConfigCompletion(p, error, smb_start)
    \/ \E username \in ClientUsernames, key \in Passwords,
          camera_id \in CamIds \cup {0} :
          GetConfig(username, key, camera_id)
    \/ \E p \in pending, error \in RemoteErrors : GetConfigCompletion(p, error)
    \/ \E username \in ClientUsernames, key \in Passwords,
          inline_admin \in BOOLEAN, camera_id \in CamIds :
          PictureList(username, key, inline_admin, camera_id)
    \/ \E p \in pending, error \in RemoteErrors : ListMediaCompletion(p, error)
    \/ EndRequest

Spec == Init /\ [][Next]_vars

(***************************************************************************)
(* Spec: properties                                                        *)
(***************************************************************************)
\* an admin's set_config call whose body ran
Commit(mode) ==
    /\ st.phase = "returned"
    /\ st.op = "set_config"
    /\ st.mode = mode
    /\ user = "admin"

KeySet == {st.keys[i] : i \in DOMAIN st.keys}

LogOps(op) == {i \in DOMAIN log : log[i].op = op}

\* C5: every set_config invocation by an admin (main-config only, single
\* camera, or bulk with a non-empty mapping) has, once every requested remote
\* completion has arrived, run finalization exactly once and sent one Commit
\* Outcome {reload, reboot, error}.
C5_CommitFinalizesOnce ==
    (/\ Commit("main") \/ Commit("single") \/ Commit("bulk")
     /\ st.nitems > 0
     /\ pending = {})
        => (st.finalized = 1 /\ response.kind = "outcome")

\* C6: in a bulk commit, every collaborator call made for the main-config
\* entry (config.set_main included) precedes every call made for a camera
\* entry and the finalization, for every insertion order of the mapping.
C6_MainFirst ==
    Commit("bulk") =>
        /\ \A i, j \in DOMAIN log :
              (i < j /\ log[j].item = "main") => log[i].item = "main"
        /\ ("main" \in KeySet /\ log # <<>>) =>
              \E i \in DOMAIN log :
                 /\ log[i].op = "config.set_main"
                 /\ \A j \in DOMAIN log : log[j].item # "main" => i < j

C6_Witness ==
    /\ Commit("bulk")
    /\ st.keys = <<"1", "main">>
    /\ \E i, j \in DOMAIN log :
          /\ i < j
          /\ log[i].op = "config.set_main"
          /\ log[j].op = "config.set_camera"
          /\ log[j].item = "1"

\* C7: in a bulk commit, finalization runs at most once, never before every
\* item of the mapping has completed, and exactly once when all have
\* completed, in whatever order the remote completions arrive.
C7_FanIn ==
    (Commit("bulk") /\ st.nitems > 0) =>
        /\ st.finalized <= 1
        /\ Cardinality(LogOps("finish")) = st.finalized
        /\ st.finalized = 1 => st.completed = KeySet
        /\ st.completed = KeySet => st.finalized = 1
        /\ \A f \in LogOps("finish"), c \in LogOps("completed") : c < f

\* two remote cameras pushed in the order 1, 2 complete in the order 2, 1
C7_Witness ==
    /\ Commit("bulk")
    /\ st.keys = <<"1", "2">>
    /\ st.finalized = 1
    /\ \E a, b, c, d \in DOMAIN log :
          /\ a < b /\ b < c /\ c < d
          /\ log[a].op = "remote.set_config" /\ log[a].item = "1"
          /\ log[b].op = "remote.set_config" /\ log[b].item = "2"
          /\ log[c].op = "completed" /\ log[c].item = "2"
          /\ log[d].op = "completed" /\ log[d].item = "1"

\* the camera a single-camera request names is of the unsupported kind
OnUnsupported ==
    /\ st.phase = "returned"
    /\ st.mode = "single"
    /\ st.camera_id \in get_camera_ids(cameras)
    /\ ~local_motion_camera(cameras[st.camera_id])
    /\ ~remote_camera(cameras[st.camera_id])

\* C8: every operation on a camera of the unsupported kind that the guard let
\* through ends with an error response; none leaves the request unanswered.
C8_UnsupportedAnswersError ==
    (OnUnsupported /\ pending = {} /\ response # Unauthorized(TRUE))
        => response.kind \in {"http_error", "json_error"}

\* C9: in a bulk commit, the failure of one item (a remote push error, or a
\* camera id that does not exist) keeps no other item from being processed,
\* and is reported in the error field of the one aggregated Commit Outcome.
C9_FailureSparesSiblings ==
    (Commit("bulk") /\ pending = {} /\ (st.raised \/ st.anyError))
        => /\ st.processed = KeySet
           /\ response.kind = "outcome"
           /\ response.error # None

\* C10: at the finalization of a bulk commit, the restart flag is true exactly
\* when an item reported that a restart is needed, and the error is non-null
\* exactly when an item reported an error.
C10_AggregateIsUnion ==
    (Commit("bulk") /\ st.finalized = 1)
        => /\ st.restart <=> st.anyRestart
           /\ (st.error # None) <=> st.anyError

\* the bulk commit {"main": cfg} where cfg differs from the stored main config
\* in the admin password only
AdminPasswordCommit ==
    /\ Commit("bulk")
    /\ st.keys = <<"main">>
    /\ st.changed = {"admin_password"}

Outcome(reload, reboot, error) ==
    [kind |-> "outcome", reload |-> reload, reboot |-> reboot, error |-> error]

\* C11: committing {"main": {admin_password: new}} with reboot capability
\* disabled answers the outcome reload=true, reboot=false, leaves the restart
\* flag false (the daemon is neither stopped nor started) and schedules no
\* host restart.
C11_PasswordOnlyNoRestart ==
    (AdminPasswordCommit /\ ~settings.ENABLE_REBOOT)
        => /\ response = Outcome(TRUE, FALSE, None)
           /\ ~st.restart
           /\ LogOps("motionctl.stop") = {}
           /\ LogOps("motionctl.start") = {}
           /\ LogOps("add_timeout(2s, powerctl.reboot)") = {}

\* C12: committing {"main": {admin_password: new}} with reboot capability
\* enabled accumulates the outcome reload=true, reboot=true, restart=false and
\* schedules one deferred host restart.
C12_PasswordOnlyReboots ==
    (AdminPasswordCommit /\ settings.ENABLE_REBOOT)
        => /\ st.reload
           /\ st.reboot
           /\ ~st.restart
           /\ Cardinality(LogOps("add_timeout(2s, powerctl.reboot)")) = 1

\* a set_config call whose finalization has run
Finalized ==
    /\ st.phase = "returned"
    /\ st.op = "set_config"
    /\ st.finalized = 1

\* C13: when finalization runs with reboot set and reboot capability enabled,
\* it schedules exactly one host reboot (after the fixed delay), answers
\* exactly {reload: false, reboot: true, error: null} and neither stops nor
\* starts the daemon, even when an item signalled restart.
C13_RebootIsTerminal ==
    (Finalized /\ st.reboot /\ settings.ENABLE_REBOOT)
        => /\ response = Outcome(FALSE, TRUE, None)
           /\ Cardinality(LogOps("add_timeout(2s, powerctl.reboot)")) = 1
           /\ LogOps("motionctl.stop") = {}
           /\ LogOps("smbctl.update_mounts") = {}
           /\ LogOps("motionctl.start") = {}

\* a reboot finalization of a commit in which a local camera asked for restart
C13_Witness ==
    /\ Finalized /\ st.reboot /\ settings.ENABLE_REBOOT
    /\ st.anyRestart
    /\ st.restart
    /\ response = Outcome(FALSE, TRUE, None)

\* finalization ran with restart set and no reboot
RestartFinalization == Finalized /\ st.restart /\ ~st.reboot

\* C14 (as stated): when finalization runs with restart set and no reboot,
\* every daemon stop it issues is followed by a daemon start before the
\* outcome is sent: the daemon is running when the commit completes.
C14_StopThenStart ==
    (RestartFinalization /\ response.kind = "outcome")
        => \A i \in LogOps("motionctl.stop") :
              \E j \in LogOps("motionctl.start") : i < j

\* C14 (amended): when finalization runs with restart set and no reboot, it
\* stops the daemon once, then updates the network-share mounts if shares are
\* enabled, then starts the daemon once, except that with shares enabled the
\* daemon is started only if the mounts update answers that it may be; the
\* outcome is sent after these steps.
C14_StopUpdateStart ==
    RestartFinalization =>
        /\ response.kind = "outcome"
        /\ \E s \in LogOps("motionctl.stop") :
              /\ LogOps("motionctl.stop") = {s}
              /\ \A f \in LogOps("finish") : f < s
              /\ IF settings.SMB_SHARES
                 THEN \E u \in LogOps("smbctl.update_mounts") :
                         /\ LogOps("smbctl.update_mounts") = {u}
                         /\ s < u
                         /\ IF log[u].arg
                            THEN LogOps("motionctl.start") = {u + 1}
                            ELSE LogOps("motionctl.start") = {}
                 ELSE /\ LogOps("smbctl.update_mounts") = {}
                      /\ LogOps("motionctl.start") = {s + 1}

\* the mounts update answered that the daemon is not to be started
C14_Witness ==
    /\ RestartFinalization
    /\ response.kind = "outcome"
    /\ LogOps("motionctl.stop") # {}
    /\ \E u \in LogOps("smbctl.update_mounts") : ~log[u].arg
    /\ LogOps("motionctl.start") = {}

\* the main-config fields that trigger a reboot: the additional config
\* flagged reboot and the admin password
RebootFields == {"sys", "admin_password"}

\* C15: with reboot capability disabled, no commit reports reboot=true or
\* schedules a host reboot, whatever it changes; with it enabled, reboot is
\* set exactly when a reboot-triggering main-config field or the admin
\* password differs between the old and the new main config.
C15_RebootSuppressed ==
    (st.phase = "returned" /\ st.op = "set_config") =>
        /\ ~settings.ENABLE_REBOOT =>
              /\ ~st.reboot
              /\ LogOps("add_timeout(2s, powerctl.reboot)") = {}
              /\ response.kind = "outcome" => ~response.reboot
        /\ settings.ENABLE_REBOOT =>
              /\ st.reboot <=> (st.changed \cap RebootFields # {})
              /\ Finalized => (response.reboot <=> st.reboot)

\* the admin password alone changed and the reboot was scheduled
C15_Witness ==
    /\ Commit("bulk")
    /\ settings.ENABLE_REBOOT
    /\ st.changed = {"admin_password"}
    /\ st.reboot
    /\ response.kind = "outcome" /\ response.reboot
    /\ LogOps("add_timeout(2s, powerctl.reboot)") # {}

\* reboot-triggering fields changed with the capability disabled
C15_WitnessDisabled ==
    /\ Commit("bulk")
    /\ ~settings.ENABLE_REBOOT
    /\ RebootFields \subseteq st.changed
    /\ response.kind = "outcome" /\ ~response.reboot

\* a set_config call that processed a main-config payload
MainProcessed ==
    /\ st.phase = "returned"
    /\ st.op = "set_config"
    /\ "main" \in st.processed

NormalChanged == st.changed \cap {"normal_username", "normal_password"} # {}

LocalIds == {i \in get_camera_ids(cameras) : local_motion_camera(cameras[i])}

\* the restart flag the main-config processing answered
MainRestart ==
    IF st.mode = "main" THEN st.restart
    ELSE \E i \in LogOps("completed") : log[i].item = "main" /\ log[i].arg

\* camera c was read and then stored while the main-config item was processed
Rederived(c) ==
    \E i, j \in DOMAIN log :
        /\ i < j
        /\ log[i].item = "main" /\ log[i].op = "config.get_camera" /\ log[i].id = c
        /\ log[j].item = "main" /\ log[j].op = "config.set_camera" /\ log[j].id = c

\* C16 (as stated): a main-config commit that changes the normal credentials
\* sets restart and re-derives and stores the configuration of every local
\* camera, for every set of configured cameras.
C16_NormalChangeSetsRestart ==
    (MainProcessed /\ NormalChanged)
        => /\ MainRestart
           /\ \A c \in LocalIds : Rederived(c)

\* C16 (amended): a main-config commit that changes the normal credentials
\* re-derives and stores the configuration of every local camera (and of no
\* other camera), and sets restart exactly when at least one local camera is
\* configured; a commit that leaves them unchanged does neither.
C16_NormalChangeRederives ==
    MainProcessed =>
        /\ NormalChanged =>
              /\ MainRestart <=> LocalIds # {}
              /\ \A c \in CamIds : Rederived(c) <=> c \in LocalIds
        /\ ~NormalChanged =>
              /\ ~MainRestart
              /\ \A c \in CamIds : ~Rederived(c)

\* two local cameras, both re-derived
C16_Witness ==
    /\ MainProcessed /\ NormalChanged
    /\ LocalIds = {1, 2}
    /\ MainRestart
    /\ Rederived(1) /\ Rederived(2)

\* the entries of the mapping that name a local camera
LocalKeys == {key \in KeySet \ {"main"} : int(key) \in LocalIds}

\* what the item reported for restart when it completed
Reported(key) ==
    \E i \in LogOps("completed") : log[i].item = key /\ log[i].arg

\* the item stored for its camera the enabled flag it had read
Unchanged(key) ==
    \E i, j \in DOMAIN log :
        /\ log[i].item = key /\ log[i].op = "config.get_camera"
        /\ log[j].item = key /\ log[j].op = "config.set_camera"
        /\ log[i].arg = log[j].arg

RemotePayloads == st.payloads

Pushes(key) == {i \in LogOps("remote.set_config") : log[i].item = key}

\* C18: for a remote camera item of a commit, the local mirror's enabled flag
\* is the payload's enabled value; the peer is contacted only when the payload
\* carries a name field, only for remote cameras, and every configuration
\* pushed to a peer has enabled=true.
C18_RemoteMirror ==
    (st.phase = "returned" /\ st.op = "set_config") =>
        /\ \A i \in LogOps("remote.set_config") :
              /\ log[i].arg = TRUE
              /\ remote_camera(cameras[log[i].id])
        /\ \A p \in RemotePayloads :
              /\ cameras[int(p.key)].enabled = p.cfg.enabled
              /\ Cardinality(Pushes(p.key)) = IF p.cfg.name # None THEN 1 ELSE 0

\* a payload that disables the camera and carries a name: the mirror is
\* disabled, the peer is sent enabled=true
C18_Witness ==
    /\ st.phase = "returned" /\ st.op = "set_config"
    /\ \E p \in RemotePayloads :
          /\ ~p.cfg.enabled
          /\ p.cfg.name # None
          /\ ~cameras[int(p.key)].enabled
          /\ \E i \in Pushes(p.key) : log[i].arg = TRUE

\* a payload with the enabled flag only: the peer is not contacted
C18_WitnessMirrorOnly ==
    /\ st.phase = "returned" /\ st.op = "set_config"
    /\ \E p \in RemotePayloads :
          /\ p.cfg.name = None
          /\ ~p.cfg.enabled
          /\ ~cameras[int(p.key)].enabled
          /\ Pushes(p.key) = {}

\* no configuration record differs from what it was before the call: the main
\* config kept every field, and every camera record that was stored was stored
\* with the enabled flag read just before
NothingChanged ==
    /\ st.changed = {}
    /\ \A j \in LogOps("config.set_camera") :
          \E i \in LogOps("config.get_camera") :
             /\ i < j
             /\ log[i].item = log[j].item /\ log[i].id = log[j].id
             /\ log[i].arg = log[j].arg

\* C19: a bulk commit is atomic for the caller: when the caller receives a
\* failure response that is not the aggregated Commit Outcome, no
\* configuration record (main or camera) has been changed.
C19_BulkAtomic ==
    (Commit("bulk") /\ pending = {} /\ response.kind = "http_error")
        => NothingChanged

\* the items of the commit that are remote cameras, and their completions
RemoteKeys == {p.key : p \in RemotePayloads}

Completions(key) == {i \in LogOps("completed") : log[i].item = key}

\* a push to a peer has failed and no call of the commit is in flight
PushFailed ==
    /\ st.phase = "returned"
    /\ st.op = "set_config"
    /\ user = "admin"
    /\ st.anyError
    /\ pending = {}

\* C37: when the push of a remote camera's configuration has failed, the
\* commit's outcome reports the error, the mirror keeps the enabled value of
\* the payload, and the item signals no restart.
C37_PushFailureReported ==
    PushFailed =>
        /\ response.kind = "outcome"
        /\ response.error # None
        /\ \A p \in RemotePayloads :
              /\ cameras[int(p.key)].enabled = p.cfg.enabled
              /\ \A i \in Completions(p.key) : log[i].arg = FALSE

\* a commit by the admin without a main-config entry
CamerasOnly ==
    /\ st.phase = "returned"
    /\ st.op = "set_config"
    /\ st.mode \in {"single", "bulk"}
    /\ user = "admin"
    /\ "main" \notin KeySet

\* C38: a commit without a main-config entry (one camera, or camera entries
\* only) schedules no host reboot, and the outcome it reports has
\* reboot=false and reload=false, whatever the camera payloads are.
C38_CamerasNeverReboot ==
    CamerasOnly =>
        /\ LogOps("add_timeout(2s, powerctl.reboot)") = {}
        /\ ~st.reboot
        /\ ~st.reload
        /\ response.kind = "outcome" =>
              (~response.reload /\ ~response.reboot)
        /\ (st.finalized = 1) => response.kind = "outcome"

\* a bulk commit of two camera entries, finalized with the daemon restarted,
\* on a host that could reboot
C38_Witness ==
    /\ CamerasOnly
    /\ st.mode = "bulk"
    /\ Len(st.keys) = 2
    /\ settings.ENABLE_REBOOT
    /\ st.finalized = 1
    /\ st.restart
    /\ response.kind = "outcome"
    /\ ~response.reload /\ ~response.reboot

(***************************************************************************)
(* SpecRemote: the operations dispatched to a remote peer and their        *)
(* completions                                                             *)
(***************************************************************************)
\* utils.v4l2_camera: a local camera on a video device
v4l2_camera(c) == c.proto = "local"

\* the controls a set_preview request may carry
PreviewControls == SUBSET {"brightness", "contrast"}

RECURSIVE SetControls(_, _, _)
\* set_preview: one v4l2ctl call for each control of the request
SetControls(k, camera_id, names) ==
    IF names = <<>> THEN k
    ELSE IF Head(names) = "brightness"
    THEN SetControls(Call(k, "", "v4l2ctl.set_brightness", camera_id, TRUE),
                     camera_id, Tail(names))
    ELSE SetControls(Call(k, "", "v4l2ctl.set_contrast", camera_id, TRUE),
                     camera_id, Tail(names))

\* 'brightness' is looked at before 'contrast'
ControlOrder(controls) ==
    (IF "brightness" \in controls THEN <<"brightness">> ELSE <<>>) \o
    (IF "contrast" \in controls THEN <<"contrast">> ELSE <<>>)

\* POST /config/<camera_id>/set_preview: ConfigHandler.set_preview
SetPreview(username, key, camera_id, controls, missing) ==
    /\ st.phase = "idle"
    /\ LET role == Role("POST", "/config/" \o IdStr(camera_id) \o "/set_preview",
                        controls, username, key)
           call == NewCall("set_preview", "single", camera_id, <<>>)
           camera_config == cameras[camera_id]
           k == Call(Ctx(call), "", "config.get_camera", camera_id,
                     camera_config.enabled)
       IN  IF ~auth(role, TRUE, FALSE) THEN Reject(call, role, TRUE)
           \* no check of the id: config.get_camera fails, or answers nothing
           \* and the handler falls through to its last branch
           ELSE IF camera_id \notin get_camera_ids(cameras)
           THEN IF missing = "raises"
                THEN Return(InternalError(Ctx(call)), role)
                ELSE Return(Respond(Ctx(call), [kind |-> "json_error",
                                                error |-> <<TRUE>>]), role)
           ELSE IF v4l2_camera(camera_config)
           THEN Return(Respond(SetControls(k, camera_id, ControlOrder(controls)),
                               [kind |-> "json", body |-> "{}"]), role)
           ELSE IF remote_camera(camera_config)
           THEN Return([Call(k, "", "remote.set_preview", camera_id, TRUE)
                          EXCEPT !.pending = @ \cup
                            {[op |-> "set_preview", id |-> camera_id,
                              item |-> ""]}], role)
           ELSE Return(Respond(k, [kind |-> "json_error", error |-> <<TRUE>>]),
                       role)

\* remote.set_preview calls back on_response(error)
SetPreviewCompletion(p, error) ==
    /\ p \in pending
    /\ p.op = "set_preview"
    /\ Return(Respond(Resume(p),
                      IF error # None
                      THEN [kind |-> "json_error", error |-> <<error>>]
                      ELSE [kind |-> "json", body |-> "null"]), user)

\* config.add_camera: the id given to a new camera, the first one not in use
FreeIds(cams) == CamIds \ get_camera_ids(cams)
NewCameraId(cams) == CHOOSE i \in FreeIds(cams) : \A j \in FreeIds(cams) : i <= j

\* the kinds of camera a client may ask to add
DeviceKinds == {"local", "remote", "unsupported"}

\* POST /config/add: ConfigHandler.add_camera
AddCamera(username, key, proto, smb_start) ==
    /\ st.phase = "idle"
    /\ FreeIds(cameras) # {}
    /\ LET role == Role("POST", "/config/add", proto, username, key)
           camera_id == NewCameraId(cameras)
           call == NewCall("add_camera", "single", camera_id, <<>>)
           camera_config == Camera(proto, TRUE)
           k == Call([Ctx(call) EXCEPT !.cameras[camera_id] = camera_config],
                     "", "config.add_camera", camera_id, TRUE)
       IN  IF ~auth(role, TRUE, FALSE) THEN Reject(call, role, TRUE)
           ELSE IF local_motion_camera(camera_config)
           THEN LET a == Call(k, "", "motionctl.stop", 0, TRUE)
                    b == IF settings.SMB_SHARES
                         THEN LET u == Call(a, "", "smbctl.update_mounts", 0,
                                            smb_start)
                              IN  IF smb_start
                                  THEN Call(u, "", "motionctl.start", 0, TRUE)
                                  ELSE u
                         ELSE Call(a, "", "motionctl.start", 0, TRUE)
                IN  Return(Respond(b, [kind |-> "json", body |-> "camera config"]),
                           role)
           ELSE IF remote_camera(camera_config)
           THEN Return([Call(k, "", "remote.get_config", camera_id, TRUE)
                          EXCEPT !.pending = @ \cup
                            {[op |-> "add_camera", id |-> camera_id,
                              item |-> ""]}], role)
           \* finish_json(ui_config) with ui_config unbound: the NameError is
           \* answered by _handle_request_exception
           ELSE Return([k EXCEPT !.st.raised = TRUE,
                                 !.response = [kind |-> "json_error",
                                               error |-> <<"internal server error">>]],
                       role)

\* remote.get_config calls back add_camera's on_response(remote_ui_config, error)
AddCameraCompletion(p, error) ==
    /\ p \in pending
    /\ p.op = "add_camera"
    /\ Return(Respond(Resume(p),
                      IF error # None
                      THEN [kind |-> "json_error", error |-> <<error>>]
                      ELSE [kind |-> "json", body |-> "camera config"]), user)

\* ConfigHandler.rem_camera; the id is not checked: for an id that is not in
\* the store config.get_camera fails, or answers nothing and nothing is removed
\* variant: the daemon is restarted whatever the kind
RemCamera_always_restarts(username, key, camera_id, missing) ==
    /\ st.phase = "idle"
    /\ LET role == Role("POST", "/config/" \o IdStr(camera_id) \o "/rem", "",
                        username, key)
           call == NewCall("rem_camera", "single", camera_id, <<>>)
           k0 == Call(Ctx(call), "", "config.get_camera", camera_id,
                      cameras[camera_id].proto)
           k == Call([k0 EXCEPT !.cameras[camera_id] = NoCamera],
                     "", "config.rem_camera", camera_id, TRUE)
       IN  IF ~auth(role, TRUE, FALSE) THEN Reject(call, role, TRUE)
           ELSE IF camera_id \notin get_camera_ids(cameras) /\ missing = "raises"
           THEN Return(InternalError(k0), role)
           ELSE Return(Respond(Call(Call(k, "", "motionctl.stop", 0, TRUE),
                                    "", "motionctl.start", 0, TRUE),
                               [kind |-> "json", body |-> "{}"]), role)

RemCamera(username, key, camera_id, missing) ==
    /\ st.phase = "idle"
    /\ LET role == Role("POST", "/config/" \o IdStr(camera_id) \o "/rem", "",
                        username, key)
           call == NewCall("rem_camera", "single", camera_id, <<>>)
           local == local_motion_camera(cameras[camera_id])
           k0 == Call(Ctx(call), "", "config.get_camera", camera_id,
                      cameras[camera_id].proto)
           k == Call([k0 EXCEPT !.cameras[camera_id] = NoCamera],
                     "", "config.rem_camera", camera_id, TRUE)
       IN  IF ~auth(role, TRUE, FALSE) THEN Reject(call, role, TRUE)
           ELSE IF camera_id \notin get_camera_ids(cameras) /\ missing = "raises"
           THEN Return(InternalError(k0), role)
           ELSE IF local
           THEN Return(Respond(Call(Call(k, "", "motionctl.stop", 0, TRUE),
                                    "", "motionctl.start", 0, TRUE),
                               [kind |-> "json", body |-> "{}"]), role)
           ELSE Return(Respond(k, [kind |-> "json", body |-> "{}"]), role)

\* what mediafiles.del_media_content may do: succeed, or raise
DeleteOutcomes == {None, "No such file or directory"}

\* POST /picture/<camera_id>/delete/<filename> (handlers.py 748-755, 944-969);
\* failure is what mediafiles.del_media_content raises for a local camera
PictureDelete(username, key, camera_id, failure) ==
    /\ st.phase = "idle"
    /\ LET role == Role("POST", "/picture/" \o IdStr(camera_id) \o "/delete",
                        "", username, key)
           call == NewCall("picture_delete", "single", camera_id, <<>>)
           k == Ctx(call)
       IN  IF camera_id \notin get_camera_ids(cameras)
           THEN Return(Raise(k, 404, "no such camera"), role)
           ELSE IF ~auth(role, TRUE, FALSE) THEN Reject(call, role, TRUE)
           ELSE LET lc == cameras[camera_id]
                    k1 == Call(k, "", "config.get_camera", camera_id, lc.enabled)
                IN  IF local_motion_camera(lc)
                    THEN Return(Respond(Call(k1, "",
                                             "mediafiles.del_media_content",
                                             camera_id, failure = None),
                                        IF failure = None
                                        THEN [kind |-> "json", body |-> "{}"]
                                        ELSE [kind |-> "json_error",
                                              error |-> <<failure>>]), role)
                    ELSE IF remote_camera(lc)
                    THEN Return([Call(k1, "", "remote.del_media_content",
                                      camera_id, TRUE)
                                   EXCEPT !.pending = @ \cup
                                     {[op |-> "remote.del_media_content",
                                       id |-> camera_id, item |-> ""]}], role)
                    ELSE Return(Raise(k1, 400, "unknown operation"), role)

\* on_response of the remote deletion (handlers.py 959-964)
DeleteCompletion(p, error) ==
    /\ p \in pending
    /\ p.op = "remote.del_media_content"
    /\ Return(Respond(Resume(p),
                      IF error = None THEN [kind |-> "json", body |-> "{}"]
                      ELSE [kind |-> "json_error",
                            error |-> <<"Failed to delete picture from",
                                        p.id, error>>]), user)

InitRemote == Init

NextRemote ==
    \/ \E username \in ClientUsernames, key \in Passwords,
          camera_id \in CamIds \cup {0} :
          GetConfig(username, key, camera_id)
    \/ \E p \in pending, error \in RemoteErrors : GetConfigCompletion(p, error)
    \/ \E username \in ClientUsernames, key \in Passwords,
          inline_admin \in BOOLEAN, camera_id \in CamIds :
          PictureList(username, key, inline_admin, camera_id)
    \/ \E p \in pending, error \in RemoteErrors : ListMediaCompletion(p, error)
    \/ \E username \in ClientUsernames, key \in Passwords, camera_id \in CamIds,
          controls \in PreviewControls, missing \in MissingOutcomes :
          SetPreview(username, key, camera_id, controls, missing)
    \/ \E p \in pending, error \in RemoteErrors : SetPreviewCompletion(p, error)
    \/ \E username \in ClientUsernames, key \in Passwords, proto \in DeviceKinds,
          smb_start \in SmbAnswers :
          AddCamera(username, key, proto, smb_start)
    \/ \E p \in pending, error \in RemoteErrors : AddCameraCompletion(p, error)
    \/ \E username \in ClientUsernames, key \in Passwords, camera_id \in CamIds,
          missing \in MissingOutcomes :
          RemCamera(username, key, camera_id, missing)
    \/ \E username \in ClientUsernames, key \in Passwords, camera_id \in CamIds,
          failure \in DeleteOutcomes :
          PictureDelete(username, key, camera_id, failure)
    \/ \E p \in pending, error \in RemoteErrors : DeleteCompletion(p, error)
    \/ EndRequest

SpecRemote == InitRemote /\ [][NextRemote]_vars

\* a remote-dispatched operation was answered with an error payload
RemoteFailure ==
    /\ st.phase = "returned"
    /\ st.op \in {"get_config", "picture_list", "set_preview", "add_camera"}
    /\ st.camera_id \in get_camera_ids(cameras)
    /\ remote_camera(cameras[st.camera_id])
    /\ user # None
    /\ pending = {}
    /\ response.kind = "json_error"

\* C20: when a remote operation completes with an error, the response is an
\* error payload whose description combines the peer's address (the pretty
\* camera URL) and the underlying error message, for every remote-dispatched
\* operation.
C20_RemoteErrorNamesPeer ==
    RemoteFailure =>
        /\ Len(response.error) = 3
        /\ response.error[2] = st.camera_id
        /\ response.error[3] \in RemoteErrors \ {None}

\* the calls to the daemon control, in the order they were made
Daemon ==
    LET calls == SelectSeq(log, LAMBDA e : e.op \in {"motionctl.stop",
                                                     "motionctl.start"})
    IN  [i \in DOMAIN calls |-> calls[i].op]

\* the kind of the record the removal has taken out of the store
Removed == log[1].arg

\* the removal has been carried out and answered
RemovalDone ==
    /\ st.op = "rem_camera"
    /\ response = [kind |-> "json", body |-> "{}"]

\* C30: removing a camera whose record was local stops and then starts the
\* daemon, once; removing a remote or unsupported one calls neither; in both
\* cases the record is gone from the store.
C30_RemoveRestartsDaemon ==
    RemovalDone =>
        /\ st.camera_id \notin get_camera_ids(cameras)
        /\ cameras[st.camera_id] = NoCamera
        /\ Daemon = IF Removed = "local"
                    THEN <<"motionctl.stop", "motionctl.start">>
                    ELSE <<>>

C30_Witness ==
    /\ RemovalDone
    /\ Removed = "local"
    /\ Daemon = <<"motionctl.stop", "motionctl.start">>
    /\ cameras[st.camera_id] = NoCamera

\* the removal of a remote camera
C30_WitnessRemote ==
    /\ RemovalDone
    /\ Removed = "remote"
    /\ Daemon = <<>>

\* an admin's per-camera operation has returned, for an id that was not in
\* the store when it arrived
UnknownCamera ==
    /\ st.phase = "returned"
    /\ user = "admin"
    /\ st.camera_id # 0
    /\ \/ /\ st.op \in {"get_config", "set_preview", "picture_list",
                           "picture_delete"}
          /\ cameras[st.camera_id] = NoCamera
       \/ /\ st.op = "rem_camera"
          /\ Removed = "absent"

\* the calls that write to the store or drive the daemon
Writes ==
    {i \in DOMAIN log : log[i].op \in {"config.set_camera", "config.rem_camera",
                                       "config.add_camera", "config.set_main",
                                       "motionctl.stop", "motionctl.start",
                                       "mediafiles.del_media_content",
                                       "remote.del_media_content",
                                       "v4l2ctl.set_brightness",
                                       "v4l2ctl.set_contrast",
                                       "v4l2ctl.set_saturation",
                                       "v4l2ctl.set_hue"}}

\* C31: a per-camera operation on a camera id that is not in the store is
\* answered with the not-found error and makes no write to the store and no
\* call to the daemon.
C31_UnknownCameraNotFound ==
    UnknownCamera =>
        /\ response = [kind |-> "http_error", status |-> 404,
                       error |-> "no such camera"]
        /\ Writes = {}

(***************************************************************************)
(* SpecList: the camera listing (ConfigHandler.list_cameras) over stores   *)
(* with cameras of every kind, enabled or not                              *)
(***************************************************************************)
\* the clients: one without credentials, whom the default configuration
\* accepts as the normal user, and one who signs with a wrong password
MediaClients == {<<None, "">>, <<"user", "pa">>}

\* the 'proto' field of the request data: None asks for the local listing
ListProtos == {None, "motioneye"}

\* the peer's 'enabled' as the entry records it
PeerFlag(remote_enabled) == IF remote_enabled THEN "enabled" ELSE "disabled"

\* an entry of the listing: what the caller sees (id, enabled, name), with the
\* mirror's flag it was built from (local) and the peer's answer (peer: None
\* when the peer was not asked or did not answer)
Entry(id, enabled, name, local, answer) ==
    [id |-> id, enabled |-> enabled, name |-> name, local |-> local,
     peer |-> answer]

\* cameras.sort(key=lambda c: c['id'])
SortById(entries) == SortSeq(entries, LAMBDA a, b : a.id < b.id)

\* check_finished of list_cameras (handlers.py 523-526)
\* variant: the entries are answered in the order of arrival
list_check_finished_unsorted(k) ==
    IF Len(k.st.entries) = k.st.length
    THEN Respond(k, [kind |-> "json", cameras |-> k.st.entries])
    ELSE k

list_check_finished(k) ==
    IF Len(k.st.entries) = k.st.length
    THEN Respond(k, [kind |-> "json", cameras |-> SortById(k.st.entries)])
    ELSE k

\* cameras.append(entry)
AddEntry(k, e) == [k EXCEPT !.st.entries = Append(@, e)]

\* on_response of on_response_builder(camera_id, local_config), up to
\* check_finished (handlers.py 529-557); error is None or what failed,
\* remote_enabled the peer's 'enabled'
\* variant: the mirror is left as it is when the peer is disabled
on_response_keeps_mirror(k, camera_id, local_config, remote_enabled, error) ==
    IF error # None
    THEN AddEntry(k, Entry(camera_id, FALSE, "<url>", local_config.enabled, None))
    ELSE AddEntry(k, Entry(camera_id, local_config.enabled /\ remote_enabled,
                           "cam", local_config.enabled, PeerFlag(remote_enabled)))

\* variant: the entry shows the peer's flag
on_response_shows_peer_flag(k, camera_id, local_config, remote_enabled, error) ==
    IF error # None
    THEN AddEntry(k, Entry(camera_id, FALSE, "<url>", local_config.enabled, None))
    ELSE IF ~remote_enabled /\ local_config.enabled
    THEN AddEntry([Call(k, "", "config.set_camera", camera_id, FALSE)
                     EXCEPT !.cameras[camera_id] =
                              [local_config EXCEPT !.enabled = FALSE]],
                  Entry(camera_id, remote_enabled, "cam",
                        local_config.enabled, PeerFlag(remote_enabled)))
    ELSE AddEntry(k, Entry(camera_id, remote_enabled, "cam",
                           local_config.enabled, PeerFlag(remote_enabled)))

\* variant: an unreachable camera is shown with the mirror's flag
on_response_error_shows_mirror(k, camera_id, local_config, remote_enabled, error) ==
    IF error # None
    THEN AddEntry(k, Entry(camera_id, local_config.enabled, "<url>",
                           local_config.enabled, None))
    ELSE IF ~remote_enabled /\ local_config.enabled
    THEN AddEntry([Call(k, "", "config.set_camera", camera_id, FALSE)
                     EXCEPT !.cameras[camera_id] =
                              [local_config EXCEPT !.enabled = FALSE]],
                  Entry(camera_id, FALSE, "cam",
                        local_config.enabled, PeerFlag(remote_enabled)))
    ELSE AddEntry(k, Entry(camera_id, local_config.enabled, "cam",
                           local_config.enabled, PeerFlag(remote_enabled)))

\* variant: the record the listing read is stored again whenever the peer
\* answers
on_response_writes_back(k, camera_id, local_config, remote_enabled, error) ==
    IF error # None
    THEN AddEntry(k, Entry(camera_id, FALSE, "<url>", local_config.enabled, None))
    ELSE LET stored == [local_config EXCEPT
                          !.enabled = @ /\ remote_enabled]
         IN  AddEntry([Call(k, "", "config.set_camera", camera_id, stored.enabled)
                         EXCEPT !.cameras[camera_id] = stored],
                      Entry(camera_id, stored.enabled, "cam",
                            local_config.enabled, PeerFlag(remote_enabled)))

on_response(k, camera_id, local_config, remote_enabled, error) ==
    IF error # None
    THEN AddEntry(k, Entry(camera_id, FALSE, "<url>", local_config.enabled, None))
    ELSE IF ~remote_enabled /\ local_config.enabled
    THEN \* the mirror is disabled and stored; its items overwrite the peer's
         LET stored == [local_config EXCEPT !.enabled = FALSE]
         IN  AddEntry([Call(k, "", "config.set_camera", camera_id, FALSE)
                         EXCEPT !.cameras[camera_id] = stored],
                      Entry(camera_id, stored.enabled, "cam",
                            local_config.enabled, PeerFlag(remote_enabled)))
    ELSE \* the peer's flag is suppressed or agrees; the mirror's items
         \* overwrite the peer's
         AddEntry(k, Entry(camera_id, local_config.enabled, "cam",
                           local_config.enabled, PeerFlag(remote_enabled)))

\* the loop over camera_ids (handlers.py 561-579)
RECURSIVE ListLoop(_, _, _)
ListLoop(k, ids, force) ==
    IF ids = <<>> THEN k
    ELSE LET camera_id == Head(ids)
             local_config == k.cameras[camera_id]
             k1 == Call(k, "", "config.get_camera", camera_id,
                        local_config.enabled)
         IN  IF local_motion_camera(local_config)
             THEN ListLoop(list_check_finished(
                             AddEntry(k1, Entry(camera_id,
                                                camera_dict_to_ui(local_config).enabled,
                                                camera_dict_to_ui(local_config).name,
                                                local_config.enabled, None))),
                           Tail(ids), force)
             ELSE IF remote_camera(local_config)
             THEN IF local_config.enabled \/ force
                  THEN ListLoop([Call(k1, "", "remote.get_config", camera_id, TRUE)
                                   EXCEPT !.pending = @ \cup
                                     {[op |-> "list_cameras", id |-> camera_id,
                                       item |-> "",
                                       local_config |-> local_config]}],
                                Tail(ids), force)
                  ELSE ListLoop(list_check_finished(
                                  on_response(k1, camera_id, local_config,
                                              FALSE, "True")),
                                Tail(ids), force)
             ELSE ListLoop(k1, Tail(ids), force)

\* config.get_camera_ids(), in the order of the store
IdSeq(cs) == Ascending(get_camera_ids(cs))

\* ConfigHandler.list_cameras up to its return
ListCameras(username, key, proto, force) ==
    /\ st.phase = "idle"
    /\ LET role == Role("GET", "/config/list", <<proto, force>>, username, key)
           call == NewCall("list_cameras", "list", 0, <<>>)
           camera_ids == IF main.enabled THEN IdSeq(cameras) ELSE <<>>
           k == ListLoop([Ctx(call) EXCEPT !.st.length = Len(camera_ids)],
                         camera_ids, force)
       IN  IF ~auth(role, FALSE, FALSE) THEN Reject(call, role, TRUE)
           ELSE IF proto # None
           THEN Return([Call(Ctx([call EXCEPT !.mode = "remote"]), "",
                             "remote.list_cameras", 0, TRUE)
                          EXCEPT !.pending = @ \cup
                            {[op |-> "list_remote", id |-> 0, item |-> ""]}],
                       role)
           ELSE Return(IF k.st.length = 0
                       THEN Respond(k, [kind |-> "json", cameras |-> <<>>])
                       ELSE k, role)

\* remote.get_config has completed for one remote camera of the listing
ListCamerasCompletion(p, remote_enabled, error) ==
    /\ p \in pending
    /\ p.op = "list_cameras"
    /\ Return(list_check_finished(
                on_response(Resume(p), p.id, p.local_config, remote_enabled,
                            error)), user)

\* on_response of the remote listing (handlers.py 487-495)
ListRemoteCompletion(p, error) ==
    /\ p \in pending
    /\ p.op = "list_remote"
    /\ Return(Respond(Resume(p),
                      IF error # None
                      THEN [kind |-> "json_error", error |-> <<error>>]
                      ELSE [kind |-> "json", cameras |-> <<>>]), user)

InitList ==
    /\ main \in {[enabled |-> b] @@ DefaultMain : b \in BOOLEAN}
    /\ \E setup \in CameraSetups :
          cameras \in {cs \in [CamIds -> {Camera(pr, e) :
                                          pr \in {"absent", "local", "remote",
                                                  "unsupported"},
                                          e \in BOOLEAN}] :
                         \A i \in CamIds :
                            /\ cs[i].proto = setup[i]
                            /\ (setup[i] = "absent" => ~cs[i].enabled)}
    /\ settings = [ENABLE_REBOOT |-> FALSE, SMB_SHARES |-> FALSE]
    /\ areq = NoRequest
    /\ user = None
    /\ authLogged = FALSE
    /\ guard = NoGuard
    /\ st = IdleCall
    /\ pending = {}
    /\ log = <<>>
    /\ response = NoResponse
    /\ MediaInit

NextList ==
    \/ \E client \in MediaClients, proto \in ListProtos, force \in BOOLEAN :
          ListCameras(client[1], client[2], proto, force)
    \/ \E p \in pending, remote_enabled \in BOOLEAN, error \in RemoteErrors :
          ListCamerasCompletion(p, remote_enabled, error)
    \/ \E p \in pending, error \in RemoteErrors : ListRemoteCompletion(p, error)
    \/ EndRequest

SpecList == InitList /\ [][NextList]_vars

\* every remote.get_config call of a listing completes: the peer answers or
\* the call times out
ListFairness ==
    WF_vars(\E p \in pending, remote_enabled \in BOOLEAN, error \in RemoteErrors :
               ListCamerasCompletion(p, remote_enabled, error))

SpecListFair == InitList /\ [][NextList]_vars /\ ListFairness

\* a local listing is being served, past the guard
ListingServed ==
    /\ st.op = "list_cameras" /\ st.mode = "list" /\ st.phase = "returned"
    /\ user # None

\* the listing being served has sent its response
ListingAnswered ==
    /\ st.op = "list_cameras" /\ st.mode = "list"
    /\ response # NoResponse

\* C36: every local camera listing that is served eventually sends its
\* response, whatever kinds of cameras the store holds, provided every
\* remote get-config call completes.
C36_ListingEventuallyAnswered == ListingServed ~> ListingAnswered

\* the entries the listing in progress has collected
Entries == {st.entries[i] : i \in DOMAIN st.entries}

\* the collaborator calls of the listing on camera id
Logged(op, id) == \E j \in DOMAIN log : log[j].op = op /\ log[j].id = id

\* the local listing has been answered
Listed ==
    /\ st.op = "list_cameras"
    /\ st.mode = "list"
    /\ response # NoResponse
    /\ response # Unauthorized(TRUE)

\* C26: when the peer reports a remote camera disabled whose mirror is
\* enabled, the mirror is stored disabled and the entry shows enabled false.
C26_PeerDisabledStored ==
    \A e \in Entries :
        (e.peer = "disabled" /\ e.local) =>
            (/\ ~e.enabled
             /\ cameras[e.id] = Camera("remote", FALSE)
             /\ Logged("config.set_camera", e.id)
             /\ Listed => \E i \in DOMAIN response.cameras :
                             response.cameras[i] = e)

C26_Witness ==
    /\ Listed
    /\ \E i \in DOMAIN response.cameras :
          LET e == response.cameras[i]
          IN  /\ e.peer = "disabled" /\ e.local /\ ~e.enabled
              /\ cameras[e.id] = Camera("remote", FALSE)

\* C27: when the mirror of a remote camera is disabled and the peer reports
\* it enabled, the entry shows enabled false, nothing is pushed to the peer
\* and the mirror is not written; whenever the peer has answered, the entry's
\* flag is the conjunction of the mirror's flag and the peer's.
C27_MirrorDisabledSuppresses ==
    \A e \in Entries :
        /\ (e.peer # None) => (e.enabled = (e.local /\ e.peer = "enabled"))
        /\ (e.peer = "enabled" /\ ~e.local) =>
              (/\ ~e.enabled
               /\ cameras[e.id] = Camera("remote", FALSE)
               /\ ~Logged("config.set_camera", e.id)
               /\ ~Logged("remote.set_config", e.id))

C27_Witness ==
    /\ Listed
    /\ \E i \in DOMAIN response.cameras :
          LET e == response.cameras[i]
          IN  /\ e.peer = "enabled" /\ ~e.local /\ ~e.enabled
              /\ ~Logged("config.set_camera", e.id)

\* C28: the entry of a remote camera whose peer did not answer, or was not
\* asked because the mirror is disabled and the listing is not forced, shows
\* enabled false and the mirror is left as it was; no entry of a camera that
\* is disabled in the store shows enabled true.
C28_UnreachableShownDisabled ==
    \A e \in Entries :
        /\ (remote_camera(cameras[e.id]) /\ e.peer = None) =>
              (/\ ~e.enabled
               /\ cameras[e.id] = Camera("remote", e.local)
               /\ ~Logged("config.set_camera", e.id))
        /\ ~e.local => ~e.enabled

\* the peer of an enabled mirror has failed to answer
C28_Witness ==
    /\ Listed
    /\ \E i \in DOMAIN response.cameras :
          LET e == response.cameras[i]
          IN  /\ remote_camera(cameras[e.id]) /\ e.peer = None
              /\ e.local /\ ~e.enabled
              /\ Logged("remote.get_config", e.id)

\* the ids of the entries of a listing, in its order
Ids(entries) == [i \in DOMAIN entries |-> entries[i].id]

\* what the entry of a camera is, given the mirror's flag and the peer's answer
Shown(e) ==
    /\ e.enabled = (e.local /\ (local_motion_camera(cameras[e.id])
                                 \/ e.peer = "enabled"))
    /\ e.name = IF remote_camera(cameras[e.id]) /\ e.peer = None
                THEN "<url>" ELSE "cam"

\* C29, as stated: the local listing has one entry per configured camera id,
\* in ascending order of the ids.
C29_OneEntryPerCamera ==
    Listed => Ids(response.cameras) = IdSeq(cameras)

\* C29, amended: with the main configuration enabled the local listing has
\* one entry per configured camera id in ascending order of the ids, each
\* entry determined by the store and the peer's answer alone, whatever the
\* order of the completions; with it disabled the listing is empty.
C29_ListingOrdered ==
    Listed =>
        /\ Ids(response.cameras) = IF main.enabled THEN IdSeq(cameras) ELSE <<>>
        /\ response.cameras = SortById(st.entries)
        /\ \A e \in Entries : Shown(e)

\* two remote cameras, the completion of the second arriving first
C29_Witness ==
    /\ Listed
    /\ Len(st.entries) = 2
    /\ Ids(st.entries) = <<2, 1>>
    /\ Ids(response.cameras) = <<1, 2>>

(***************************************************************************)
(* SpecTimelapse, SpecZipped: the time-lapse movies and the prepared       *)
(* archives                                                                *)
(* (PictureHandler.zipped, PictureHandler.timelapse), the time-lapse job   *)
(* tracker and the artifact cache of mediafiles, with requests in flight   *)
(* at the same time                                                        *)
(***************************************************************************)
MaxKeys == 1               \* most artifacts the prepared cache comes to hold

\* the bytes an archive or a render may consist of
ZipBytes == {"zipA", "zipB"}
MovieBytes == {"avi"}

\* the values of the 'key' argument: 0 stands for no key argument
KeyInputs == 0..(MaxKeys + 1)

\* mediafiles.set_prepared_cache(data): a generated key, never used before
set_prepared_cache(c, data) == [key |-> Len(c) + 1, cache |-> Append(c, data)]

\* mediafiles.get_prepared_cache(key)
get_prepared_cache(c, key) == IF key \in DOMAIN c THEN c[key] ELSE None

\* mediafiles.check_timelapse_movie(): the status it answers and the tracker
\* after it; the result of a completed job is handed over once
check_timelapse_movie(j) ==
    [status |-> [progress |-> j.progress, data |-> j.data],
     job |-> [j EXCEPT !.data = None]]

\* mediafiles.make_timelapse_movie(camera_config, framerate, interval, group);
\* gen tells a job from the one before it
make_timelapse_movie(j, camera_id) ==
    [progress |-> 0, data |-> None, camera_id |-> camera_id, gen |-> 1 - j.gen]

\* a request slot taken by an operation
Slot(op, camera_id, key) ==
    [phase |-> "running", op |-> op, camera_id |-> camera_id, key |-> key]

HttpError(status, message) ==
    [kind |-> "http_error", status |-> status, error |-> message]

\* 'Failed to ... %(url)s: %(msg)s.'
RemoteError(what, camera_id, error) ==
    [kind |-> "json_error", error |-> <<what, camera_id, error>>]

\* what a handler has done when it returns: the payload, the bytes it sent
\* or produced, the media store after it
Done(payload, data, j, c, p) ==
    [payload |-> payload, data |-> data, job |-> j, cache |-> c, peer |-> p]

\* the response is sent and the effects on the media store become the state;
\* the response is kept with the request it answers, the tracker's status
\* before it (was), and whether a job was started and an artifact inserted
Finish(r, slot, d) ==
    /\ reqs' = [reqs EXCEPT ![r] = IdleReq]
    /\ response' = [op |-> slot.op, camera_id |-> slot.camera_id,
                    key |-> slot.key, payload |-> d.payload, data |-> d.data,
                    was |-> [progress |-> job.progress, data |-> job.data],
                    started |-> (d.job.gen # job.gen),
                    inserted |-> Len(d.cache) - Len(cache)]
    /\ job' = d.job
    /\ cache' = d.cache
    /\ peer' = d.peer
    /\ UNCHANGED <<main, cameras, settings, areq, user, authLogged, guard, st,
                   pending, log>>
    /\ UNCHANGED liveVars

\* the handler returns without a response: a callback is awaited
Suspend(r, slot, phase, p) ==
    /\ reqs' = [reqs EXCEPT ![r] = [slot EXCEPT !.phase = phase]]
    /\ peer' = p
    /\ UNCHANGED <<main, cameras, settings, areq, user, authLogged, guard, st,
                   pending, log, response, job, cache>>
    /\ UNCHANGED liveVars

\* the local branch of the start operation (handlers.py 1109-1123)
\* variant: a job is started whatever the tracker reports
StartLocal_always_makes(j, c, p, camera_id) ==
    Done([kind |-> "json", progress |-> -1], None,
         make_timelapse_movie(check_timelapse_movie(j).job, camera_id), c, p)

\* variant: another camera's job does not count as running
StartLocal_per_camera(j, c, p, camera_id) ==
    LET t == check_timelapse_movie(j)
    IN  IF t.status.progress # -1 /\ j.camera_id = camera_id
        THEN Done([kind |-> "json", progress |-> t.status.progress], None,
                  t.job, c, p)
        ELSE Done([kind |-> "json", progress |-> -1], None,
                  make_timelapse_movie(t.job, camera_id), c, p)

StartLocal(j, c, p, camera_id) ==
    LET t == check_timelapse_movie(j)
    IN  IF t.status.progress # -1
        THEN Done([kind |-> "json", progress |-> t.status.progress], None,
                  t.job, c, p)
        ELSE Done([kind |-> "json", progress |-> -1], None,
                  make_timelapse_movie(t.job, camera_id), c, p)

\* the local branch of the check operation (handlers.py 1079-1088)
\* variant: an artifact is inserted whenever no job is running
CheckLocal_always_inserts(j, c, p) ==
    LET t == check_timelapse_movie(j)
        s == set_prepared_cache(c, t.status.data)
    IN  IF t.status.progress = -1
        THEN Done([kind |-> "json", key |-> s.key, progress |-> -1], None,
                  t.job, s.cache, p)
        ELSE Done([kind |-> "json", progress |-> t.status.progress,
                   data |-> t.status.data], None, t.job, c, p)

CheckLocal(j, c, p) ==
    LET t == check_timelapse_movie(j)
        s == set_prepared_cache(c, t.status.data)
    IN  IF t.status.progress = -1 /\ ~Falsy(t.status.data)
        THEN Done([kind |-> "json", key |-> s.key, progress |-> -1], None,
                  t.job, s.cache, p)
        ELSE Done([kind |-> "json", progress |-> t.status.progress,
                   data |-> t.status.data], None, t.job, c, p)

\* the local branch of the archive download (handlers.py 979-992)
\* variant: whatever the lookup answers is sent
DownloadLocal_unchecked(j, c, p, key) ==
    Done([kind |-> "data"], get_prepared_cache(c, key), j, c, p)

DownloadLocal(j, c, p, key) ==
    LET data == get_prepared_cache(c, key)
    IN  IF Falsy(data) THEN Done(HttpError(404, "no such key"), None, j, c, p)
        ELSE Done([kind |-> "data"], data, j, c, p)

\* variant: the time-lapse endpoint sends movies only
DownloadMovieLocal_movies_only(j, c, p, key) ==
    LET data == get_prepared_cache(c, key)
    IN  IF data \notin MovieBytes
        THEN Done(HttpError(404, "no such key"), None, j, c, p)
        ELSE Done([kind |-> "data"], data, j, c, p)

\* the local branch of the time-lapse download (handlers.py 1048-1060): only
\* a missing entry answers 404
DownloadMovieLocal(j, c, p, key) ==
    LET data == get_prepared_cache(c, key)
    IN  IF data = None THEN Done(HttpError(404, "no such key"), None, j, c, p)
        ELSE Done([kind |-> "data"], data, j, c, p)

\* PictureHandler.get, op 'timelapse', and PictureHandler.timelapse up to
\* its return; key 0 is no key argument
Timelapse(r, username, secret, camera_id, key, check) ==
    /\ reqs[r].phase = "idle"
    /\ LET role == Role("GET", "/picture/" \o IdStr(camera_id) \o "/timelapse",
                        <<key, check>>, username, secret)
           op == IF key # 0 THEN "timelapse_download"
                 ELSE IF check THEN "timelapse_check" ELSE "timelapse_start"
           slot == Slot(op, camera_id, key)
           camera_config == cameras[camera_id]
       IN  IF camera_id \notin get_camera_ids(cameras)
           THEN Finish(r, slot, Done(HttpError(404, "no such camera"), None,
                                     job, cache, peer))
           ELSE IF ~auth(role, FALSE, FALSE)
           THEN Finish(r, slot, Done(Unauthorized(TRUE), None, job, cache, peer))
           ELSE IF local_motion_camera(camera_config)
           THEN CASE op = "timelapse_download" ->
                       Finish(r, slot, DownloadMovieLocal(job, cache, peer, key))
                  [] op = "timelapse_check" ->
                       /\ Len(CheckLocal(job, cache, peer).cache) <= MaxKeys
                       /\ Finish(r, slot, CheckLocal(job, cache, peer))
                  [] op = "timelapse_start" ->
                       Finish(r, slot, StartLocal(job, cache, peer, camera_id))
           ELSE IF remote_camera(camera_config)
           THEN Suspend(r, slot, "await_" \o op, peer)
           ELSE Finish(r, slot, Done(HttpError(400, "unknown operation"), None,
                                     job, cache, peer))

\* the renderer of mediafiles advances the job
JobProgress ==
    /\ job.progress = 0
    /\ job' = [job EXCEPT !.progress = 50]
    /\ UNCHANGED <<main, cameras, settings, areq, user, authLogged, guard, st,
                   pending, log, response, cache, peer, reqs>>
    /\ UNCHANGED liveVars

\* the renderer ends: with a movie, or without one when it failed
JobFinish(data) ==
    /\ job.progress # -1
    /\ job' = [job EXCEPT !.progress = -1, !.data = data]
    /\ UNCHANGED <<main, cameras, settings, areq, user, authLogged, guard, st,
                   pending, log, response, cache, peer, reqs>>
    /\ UNCHANGED liveVars

\* the peer's renderer ends
PeerFinish ==
    /\ peer.progress # -1
    /\ peer' = [progress |-> -1, data |-> "avi"]
    /\ UNCHANGED <<main, cameras, settings, areq, user, authLogged, guard, st,
                   pending, log, response, cache, job, reqs>>
    /\ UNCHANGED liveVars

\* on_status of the remote start (handlers.py 1125-1143): the peer has
\* answered its check, which hands over what it had completed
TimelapseOnStatus(r, error) ==
    /\ reqs[r].phase = "await_timelapse_start"
    /\ LET slot == reqs[r]
           checked == [peer EXCEPT !.data = None]
       IN  IF error # None
           THEN Finish(r, slot,
                       Done(RemoteError("Failed to make timelapse movie at",
                                        slot.camera_id, error), None,
                            job, cache, peer))
           ELSE IF peer.progress # -1
           THEN Finish(r, slot, Done([kind |-> "json",
                                      progress |-> peer.progress], None,
                                     job, cache, checked))
           ELSE Suspend(r, slot, "await_make", checked)

\* on_make of the remote start: the peer has run its own start operation
TimelapseOnMake(r, error) ==
    /\ reqs[r].phase = "await_make"
    /\ LET slot == reqs[r]
       IN  IF error # None
           THEN Finish(r, slot,
                       Done(RemoteError("Failed to make timelapse movie at",
                                        slot.camera_id, error), None,
                            job, cache, peer))
           ELSE Finish(r, slot,
                       Done([kind |-> "json", progress |-> -1], None, job, cache,
                            IF peer.progress = -1
                            THEN [peer EXCEPT !.progress = 0, !.data = None]
                            ELSE peer))

\* on_response of the remote check (handlers.py 1090-1103)
TimelapseOnCheck(r, error) ==
    /\ reqs[r].phase = "await_timelapse_check"
    /\ LET slot == reqs[r]
       IN  IF error # None
           THEN Finish(r, slot,
                       Done(RemoteError("Failed to check timelapse movie progress at",
                                        slot.camera_id, error), None,
                            job, cache, peer))
           ELSE IF peer.progress = -1 /\ ~Falsy(peer.data)
           THEN Finish(r, slot,
                       Done([kind |-> "json", key |-> "peer key",
                             progress |-> -1], None, job, cache,
                            [peer EXCEPT !.data = None]))
           ELSE Finish(r, slot, Done([kind |-> "json",
                                      progress |-> peer.progress], None,
                                     job, cache, peer))

\* PictureHandler.get, op 'zipped', and PictureHandler.zipped up to its return
Zipped(r, username, secret, camera_id, key) ==
    /\ reqs[r].phase = "idle"
    /\ LET role == Role("GET", "/picture/" \o IdStr(camera_id) \o "/zipped",
                        <<key>>, username, secret)
           op == IF key # 0 THEN "zipped_download" ELSE "zipped_prepare"
           slot == Slot(op, camera_id, key)
           camera_config == cameras[camera_id]
       IN  IF camera_id \notin get_camera_ids(cameras)
           THEN Finish(r, slot, Done(HttpError(404, "no such camera"), None,
                                     job, cache, peer))
           ELSE IF ~auth(role, FALSE, FALSE)
           THEN Finish(r, slot, Done(Unauthorized(TRUE), None, job, cache, peer))
           ELSE IF local_motion_camera(camera_config)
           THEN IF op = "zipped_download"
                THEN Finish(r, slot, DownloadLocal(job, cache, peer, key))
                ELSE Suspend(r, slot, "await_zip", peer)
           ELSE IF remote_camera(camera_config)
           THEN Suspend(r, slot, "await_" \o op, peer)
           ELSE Finish(r, slot, Done(HttpError(400, "unknown operation"), None,
                                     job, cache, peer))

\* on_zip (handlers.py 1013-1019): mediafiles has built the archive, or failed
OnZip(r, data) ==
    /\ reqs[r].phase = "await_zip"
    /\ data # None => Len(cache) < MaxKeys
    /\ LET slot == reqs[r]
           s == set_prepared_cache(cache, data)
       IN  IF data = None
           THEN Finish(r, slot,
                       Done([kind |-> "json_error",
                             error |-> <<"Failed to create zip file.">>], None,
                            job, cache, peer))
           ELSE Finish(r, slot, Done([kind |-> "json", key |-> s.key], data,
                                     job, s.cache, peer))

\* on_response of a remote download or of a remote prepare
OnRemoteMedia(r, error) ==
    /\ reqs[r].phase \in {"await_timelapse_download", "await_zipped_download",
                          "await_zipped_prepare"}
    /\ LET slot == reqs[r]
           what == CASE slot.op = "timelapse_download" ->
                           "Failed to download timelapse movie from"
                     [] slot.op = "zipped_download" ->
                           "Failed to download zip file from"
                     [] slot.op = "zipped_prepare" ->
                           "Failed to make zip file at"
       IN  IF error # None
           THEN Finish(r, slot, Done(RemoteError(what, slot.camera_id, error),
                                     None, job, cache, peer))
           ELSE IF slot.op = "zipped_prepare"
           THEN Finish(r, slot, Done([kind |-> "json", key |-> "peer key"],
                                     None, job, cache, peer))
           ELSE Finish(r, slot, Done([kind |-> "data"], "peer bytes",
                                     job, cache, peer))

\* the stores: two local cameras; a local and a remote one, peer being the
\* tracker of the remote one's peer; an unsupported one and a free id
MediaSetups ==
    {f \in CameraSetups : <<f[1], f[2]>> \in {<<"local", "local">>,
                                              <<"local", "remote">>,
                                              <<"unsupported", "absent">>}}

InitMedia ==
    /\ Init
    /\ \E setup \in MediaSetups :
          cameras = [i \in CamIds |-> Camera(setup[i], setup[i] # "absent")]
    /\ settings = [ENABLE_REBOOT |-> FALSE, SMB_SHARES |-> FALSE]

NextTimelapse ==
    \/ \E r \in RIds, client \in MediaClients, camera_id \in CamIds,
          key \in KeyInputs, check \in BOOLEAN :
          Timelapse(r, client[1], client[2], camera_id, key, check)
    \/ JobProgress
    \/ \E data \in MovieBytes \cup {None} : JobFinish(data)
    \/ PeerFinish
    \/ \E r \in RIds, error \in RemoteErrors : TimelapseOnStatus(r, error)
    \/ \E r \in RIds, error \in RemoteErrors : TimelapseOnMake(r, error)
    \/ \E r \in RIds, error \in RemoteErrors : TimelapseOnCheck(r, error)
    \/ \E r \in RIds, error \in RemoteErrors : OnRemoteMedia(r, error)

SpecTimelapse == InitMedia /\ [][NextTimelapse]_vars

NextZipped ==
    \/ \E r \in RIds, client \in MediaClients, camera_id \in CamIds,
          key \in KeyInputs :
          Zipped(r, client[1], client[2], camera_id, key)
    \/ \E r \in RIds, data \in ZipBytes \cup {None} : OnZip(r, data)
    \/ \E r \in RIds, error \in RemoteErrors : OnRemoteMedia(r, error)

SpecZipped == InitMedia /\ [][NextZipped]_vars

\* the last response answers operation op on a local camera, past the
\* authorization guard
LocalReply(op) ==
    /\ response # NoResponse
    /\ response.op = op
    /\ local_motion_camera(cameras[response.camera_id])
    /\ response.payload # Unauthorized(TRUE)

\* C21: a start for a local camera while a job is running (progress # -1)
\* starts no new job, leaves the running job untouched and answers the
\* running job's progress; a job is started only when the tracker reports
\* progress -1.
C21_StartWhileRunning ==
    [][/\ (job'.gen # job.gen) => (job.progress = -1 /\ job'.progress = 0)
       /\ (response' # response /\ LocalReply("timelapse_start")'
             /\ job.progress # -1)
          => (/\ job' = job
              /\ response'.payload = [kind |-> "json",
                                      progress |-> job.progress])]_vars

C21_Witness ==
    /\ LocalReply("timelapse_start")
    /\ response.was.progress = 50
    /\ ~response.started
    /\ response.payload = [kind |-> "json", progress |-> 50]
    /\ job.progress = 50

\* C22: of the start requests for one remote camera that are in flight at
\* the same time, at most one has issued the make call to the peer.
C22_OneMakeInFlight ==
    \A a, b \in RIds :
        (/\ reqs[a].phase = "await_make"
         /\ reqs[b].phase = "await_make"
         /\ reqs[a].camera_id = reqs[b].camera_id) => a = b

\* C23: a check that observes a completed job (progress -1 with a result)
\* inserts the result into the cache once and answers its key with progress
\* -1; every other check answers the tracker's status without a key and
\* inserts nothing; an insertion takes the result out of the tracker, so
\* that later checks find none until another job ends.
C23_HandOffOnce ==
    /\ [](LocalReply("timelapse_check") =>
            IF response.was.progress = -1 /\ response.was.data # None
            THEN /\ response.inserted = 1
                 /\ response.payload.kind = "json"
                 /\ DOMAIN response.payload = {"kind", "key", "progress"}
                 /\ response.payload.progress = -1
                 /\ response.payload.key \in DOMAIN cache
                 /\ cache[response.payload.key] = response.was.data
            ELSE /\ response.inserted = 0
                 /\ response.payload =
                       [kind |-> "json", progress |-> response.was.progress,
                        data |-> None])
    /\ [][(cache' # cache) =>
            (/\ job.progress = -1
             /\ job.data # None
             /\ job' = [job EXCEPT !.data = None]
             /\ cache' = Append(cache, job.data))]_vars

\* a check after the hand-off: the cache holds the movie, the tracker is idle
\* without a result, and the check has inserted nothing
C23_Witness ==
    /\ LocalReply("timelapse_check")
    /\ cache = <<"avi">>
    /\ response.was = [progress |-> -1, data |-> None]
    /\ response.inserted = 0
    /\ response.payload = [kind |-> "json", progress |-> -1, data |-> None]
    /\ job.gen = 1

\* C24: the process has one tracker, whatever the camera: a start for a
\* local camera while the job of another local camera is running is answered
\* with that job's progress and starts nothing.
C24_OneJobPerProcess ==
    [][(/\ response' # response
        /\ LocalReply("timelapse_start")'
        /\ job.progress # -1
        /\ job.camera_id # response'.camera_id)
       => (/\ job' = job
           /\ ~response'.started
           /\ response'.payload = [kind |-> "json",
                                   progress |-> job.progress])]_vars

C24_Witness ==
    /\ LocalReply("timelapse_start")
    /\ response.camera_id = 2
    /\ job.camera_id = 1
    /\ job.progress = 0
    /\ ~response.started
    /\ response.payload = [kind |-> "json", progress |-> 0]

\* C25: for a local camera, a prepare stores the bytes produced under a new
\* key, which it answers, and leaves the other artifacts as they are; a
\* download with a key of the cache sends exactly the bytes stored under it,
\* and a download with any other key answers 404 and sends nothing.
C25_PrepareThenDownload ==
    /\ []((LocalReply("zipped_prepare") /\ response.payload.kind = "json") =>
            (/\ response.inserted = 1
             /\ response.data \in ZipBytes
             /\ response.payload.key \in DOMAIN cache
             /\ cache[response.payload.key] = response.data))
    /\ [](LocalReply("zipped_download") =>
            IF response.key \in DOMAIN cache
            THEN /\ response.payload = [kind |-> "data"]
                 /\ response.data = cache[response.key]
            ELSE /\ response.payload = HttpError(404, "no such key")
                 /\ response.data = None)
    /\ [][(cache' # cache) =>
            (/\ Len(cache') = Len(cache) + 1
             /\ SubSeq(cache', 1, Len(cache)) = cache
             /\ response'.op = "zipped_prepare"
             /\ response'.payload = [kind |-> "json", key |-> Len(cache')])]_vars

\* a download of what a prepare has stored
C25_Witness ==
    /\ LocalReply("zipped_download")
    /\ response.key = 1
    /\ cache = <<"zipB">>
    /\ response.payload = [kind |-> "data"]
    /\ response.data = "zipB"

(***************************************************************************)
(* SpecArtifacts: the archive and the time-lapse endpoints served one      *)
(* request at a time over the same tracker and the same prepared cache     *)
(***************************************************************************)
\* the slot of a request where one request is served at a time
OneSlot == {1}

NextArtifacts ==
    \/ \E r \in OneSlot, client \in MediaClients, camera_id \in CamIds,
          key \in KeyInputs, check \in BOOLEAN :
          Timelapse(r, client[1], client[2], camera_id, key, check)
    \/ \E r \in OneSlot, client \in MediaClients, camera_id \in CamIds,
          key \in KeyInputs :
          Zipped(r, client[1], client[2], camera_id, key)
    \/ JobProgress
    \/ \E data \in MovieBytes \cup {None} : JobFinish(data)
    \/ PeerFinish
    \/ \E r \in OneSlot, data \in ZipBytes \cup {None} : OnZip(r, data)
    \/ \E r \in OneSlot, error \in RemoteErrors : TimelapseOnStatus(r, error)
    \/ \E r \in OneSlot, error \in RemoteErrors : TimelapseOnMake(r, error)
    \/ \E r \in OneSlot, error \in RemoteErrors : TimelapseOnCheck(r, error)
    \/ \E r \in OneSlot, error \in RemoteErrors : OnRemoteMedia(r, error)

SpecArtifacts == InitMedia /\ [][NextArtifacts]_vars

\* C40: for local cameras the result of the finished job and the prepared
\* artifacts belong to no camera: a check naming any local camera, the one
\* the job was started for or another, takes the result out of the tracker
\* and stores it; a download with a key of the cache sends the bytes stored
\* under the key, the same for either local camera and for the archive and
\* the time-lapse endpoint, whichever endpoint produced them.
C40_ArtifactsUnbound ==
    /\ [](\A op \in {"zipped_download", "timelapse_download"} :
            (LocalReply(op) /\ response.key \in DOMAIN cache) =>
                /\ response.payload = [kind |-> "data"]
                /\ response.data = cache[response.key])
    /\ [][(/\ job.progress = -1 /\ ~Falsy(job.data)
           /\ response' # response
           /\ LocalReply("timelapse_check")')
          => (/\ cache' = Append(cache, job.data)
              /\ job' = [job EXCEPT !.data = None]
              /\ response'.payload =
                    [kind |-> "json", key |-> Len(cache'), progress |-> -1])]_vars

\* the archive endpoint, asked for camera 2, has sent the movie rendered for
\* camera 1
C40_Witness ==
    /\ LocalReply("zipped_download")
    /\ response.camera_id = 2
    /\ response.data \in MovieBytes
    /\ job.camera_id = 1 /\ job.gen = 1 /\ job.progress = -1

\* a check naming camera 2 has taken the result of the job of camera 1
C40_WitnessCheck ==
    /\ LocalReply("timelapse_check")
    /\ response.inserted = 1
    /\ response.camera_id = 2
    /\ job.camera_id = 1

\* the time-lapse endpoint has sent an archive
C40_WitnessArchive ==
    /\ LocalReply("timelapse_download")
    /\ response.data \in ZipBytes

(***************************************************************************)
(* SpecPicture: the live picture (PictureHandler.current) and the          *)
(* live-picture cache of mediafiles                                        *)
(***************************************************************************)
\* the 'seq' and 'width' arguments of a request (None: not given)
SeqArgs == {None, "", "0", "1"}
Widths == {None, "320"}

\* what a retrieval yields: a picture, an empty one, or none
Jpegs == {"jpgA", "jpgB"}
Retrieved == Jpegs \cup {"", None}

\* `sequence` where the handler takes it as a condition (handlers.py 768-770,
\* 775, 786, 794): the argument is given, is not empty and, converted by
\* int(), is not zero
HasSequence(seq) == ~Falsy(seq) /\ int(seq) # 0

\* mediafiles.get_picture_cache and mediafiles.set_picture_cache: a table
\* keyed by (camera id, sequence number, requested width); an entry is
\* replaced by a later one with its key
get_picture_cache(c, camera_id, sequence, width) ==
    IF <<camera_id, sequence, width>> \in DOMAIN c
    THEN c[<<camera_id, sequence, width>>]
    ELSE None

set_picture_cache(c, camera_id, sequence, width, content) ==
    (<<camera_id, sequence, width>> :> content) @@ c

\* motionctl.is_motion_detected
is_motion_detected(d, camera_id) == camera_id \in DOMAIN d /\ d[camera_id]

\* handlers.py 775: sequence and mediafiles.get_picture_cache(...) or None
CachedPicture(c, camera_id, seq, width) ==
    IF ~HasSequence(seq)
    THEN None
    ELSE LET picture == get_picture_cache(c, camera_id, int(seq), width)
         IN  IF Falsy(picture) THEN None ELSE picture

\* handlers.py 786-787 and 794-795: if sequence and picture: set_picture_cache
StorePicture(c, camera_id, seq, width, picture) ==
    IF HasSequence(seq) /\ ~Falsy(picture)
    THEN set_picture_cache(c, camera_id, int(seq), width, picture)
    ELSE c

\* a live-picture request and what it has sent: the payload, where the
\* picture came from (source), and what the cache held for its key when the
\* request arrived (held)
PictureSlot(camera_id, seq, width, held) ==
    [phase |-> "await_picture", op |-> "current", camera_id |-> camera_id,
     key |-> 0, seq |-> seq, width |-> width, held |-> held]

PictureReply(slot, payload, source, cookie) ==
    [op |-> "current", camera_id |-> slot.camera_id, seq |-> slot.seq,
     width |-> slot.width, held |-> slot.held, payload |-> payload,
     source |-> source, cookie |-> cookie]

Jpeg(picture) == [kind |-> "jpeg", picture |-> picture]

\* PictureHandler.get with op = 'current' (handlers.py 716-723) and
\* PictureHandler.current (handlers.py 764-800); picture is what
\* mediafiles.get_current_picture yields for a local camera
Current(r, username, secret, camera_id, seq, width, picture) ==
    /\ reqs[r].phase = "idle"
    /\ LET role == Role("GET", "/picture/" \o IdStr(camera_id) \o "/current",
                        <<seq, width>>, username, secret)
           camera_config == cameras[camera_id]
           held == get_picture_cache(pictures, camera_id,
                                     IF Falsy(seq) THEN 0 ELSE int(seq), width)
           slot == PictureSlot(camera_id, seq, width, held)
           cached == CachedPicture(pictures, camera_id, seq, width)
       IN  IF camera_id \notin get_camera_ids(cameras)
           THEN /\ response' = PictureReply(slot,
                                            HttpError(404, "no such camera"),
                                            "none", None)
                /\ UNCHANGED <<reqs, pictures>>
           ELSE IF ~auth(role, FALSE, FALSE)
           THEN /\ response' = PictureReply(slot, Unauthorized(FALSE), "none",
                                            None)
                /\ UNCHANGED <<reqs, pictures>>
           ELSE IF cached # None
           THEN /\ response' = PictureReply(slot, Jpeg(cached), "cache", None)
                /\ UNCHANGED <<reqs, pictures>>
           ELSE IF local_motion_camera(camera_config)
           THEN /\ pictures' = StorePicture(pictures, camera_id, seq, width,
                                            picture)
                /\ response' = PictureReply(slot, Jpeg(picture), "local",
                                            is_motion_detected(detected,
                                                               camera_id))
                /\ UNCHANGED reqs
           ELSE IF remote_camera(camera_config)
           THEN /\ reqs' = [reqs EXCEPT ![r] = slot]
                /\ UNCHANGED <<response, pictures>>
           ELSE \* neither branch is taken: the request is left unanswered
                /\ response' = PictureReply(slot, [kind |-> "none"], "none",
                                            None)
                /\ UNCHANGED <<reqs, pictures>>
    /\ UNCHANGED <<main, cameras, settings, areq, user, authLogged, guard, st,
                   pending, log, job, cache, peer, detected>>

\* on_response of the remote retrieval (handlers.py 792-798)
CurrentOnResponse(r, motion_detected, picture) ==
    /\ reqs[r].phase = "await_picture"
    /\ LET slot == reqs[r]
       IN  /\ pictures' = StorePicture(pictures, slot.camera_id, slot.seq,
                                       slot.width, picture)
           /\ response' = PictureReply(slot, Jpeg(picture), "remote",
                                       motion_detected)
    /\ reqs' = [reqs EXCEPT ![r] = IdleReq]
    /\ UNCHANGED <<main, cameras, settings, areq, user, authLogged, guard, st,
                   pending, log, job, cache, peer, detected>>

NextPicture ==
    \/ \E r \in OneSlot, client \in MediaClients, camera_id \in CamIds,
          seq \in SeqArgs, width \in Widths, picture \in Retrieved :
          Current(r, client[1], client[2], camera_id, seq, width, picture)
    \/ \E r \in OneSlot, motion_detected \in BOOLEAN,
          picture \in Retrieved :
          CurrentOnResponse(r, motion_detected, picture)

SpecPicture == InitMedia /\ [][NextPicture]_vars

\* the last response answers a live-picture request for a local or remote
\* camera, past the guard, that carried a sequence number
SequencedReply ==
    /\ response # NoResponse
    /\ response.op = "current"
    /\ response.source # "none"
    /\ ~Falsy(response.seq)

\* C32: a live-picture request carrying a sequence number is answered from
\* the cache, without a local or remote retrieval, with the picture the cache
\* held for (camera id, sequence, width); when the cache held none, the
\* picture is retrieved and, when not empty, is in the cache under that key
\* afterwards, so that the next request with the key is served from the cache.
C32_LivePictureCache ==
    SequencedReply =>
        IF response.held # None
        THEN /\ response.source = "cache"
             /\ response.payload = Jpeg(response.held)
        ELSE /\ response.source \in {"local", "remote"}
             /\ ~Falsy(response.payload.picture) =>
                   get_picture_cache(pictures, response.camera_id,
                                     int(response.seq), response.width)
                       = response.payload.picture

(***************************************************************************)
(* SpecRelay: the events the daemon relays (ConfigHandler._relay_event)    *)
(* and the motion-detected flags of motionctl, over a store whose cameras  *)
(* can be removed                                                          *)
(***************************************************************************)
\* the 'event' argument (None: not given)
RelayEvents == {None, "start", "stop", "bogus"}

\* motionctl._motion_detected[camera_id] = value
set_motion_detected(d, camera_id, value) == (camera_id :> value) @@ d

\* the handler returns to the IOLoop, having assigned the flags d
ReturnFlags(k, role, d) ==
    /\ main' = k.main
    /\ cameras' = k.cameras
    /\ pending' = k.pending
    /\ log' = k.log
    /\ response' = k.response
    /\ st' = k.st
    /\ user' = role
    /\ detected' = d
    /\ UNCHANGED <<settings, areq, authLogged, guard, pictures>>
    /\ UNCHANGED mediaVars

\* variant: a start event is accepted whatever the camera's motion detection
RelayedFlag_any_start(camera_config, event) ==
    IF ~local_motion_camera(camera_config) THEN None
    ELSE IF event = "start" THEN "true"
    ELSE IF event = "stop" THEN "false"
    ELSE None

\* what an event does to the flag of its camera (handlers.py 697-711): set it
\* ("true"), clear it ("false") or leave it (None)
RelayedFlag(camera_config, event) ==
    IF ~local_motion_camera(camera_config) THEN None
    ELSE IF event = "start"
    THEN IF ~camera_config.motion_detection THEN None ELSE "true"
    ELSE IF event = "stop" THEN "false"
    ELSE None

\* POST /config/<camera_id>/_relay_event (handlers.py 684-713)
RelayEvent(username, key, camera_id, event, missing) ==
    /\ st.phase = "idle"
    /\ LET role == Role("POST",
                        "/config/" \o IdStr(camera_id) \o "/_relay_event", "",
                        username, key)
           call == NewCall("relay_event", "single", camera_id, <<>>)
           k == Call(Ctx(call), "", "get_argument", camera_id, event)
           flag == RelayedFlag(cameras[camera_id], event)
           ok == Respond(k, [kind |-> "json", body |-> "{}"])
       IN  IF ~auth(role, TRUE, FALSE)
           THEN ReturnFlags(Respond(Ctx(call), Unauthorized(TRUE)), role,
                            detected)
           ELSE IF event = None
           THEN ReturnFlags(Raise(Ctx(call), 400, "Missing argument event"),
                            role, detected)
           ELSE IF camera_id \notin get_camera_ids(cameras) /\ missing = "raises"
           THEN ReturnFlags(ok, role, detected)
           ELSE IF flag = None
           THEN ReturnFlags(ok, role, detected)
           ELSE ReturnFlags(Call(ok, "", "motionctl._motion_detected",
                                 camera_id, flag = "true"), role,
                            set_motion_detected(detected, camera_id,
                                                flag = "true"))

\* the stores of the relay: every kind of camera, motion detection switched
\* on or off
InitRelay ==
    /\ main = DefaultMain
    /\ areq = NoRequest
    /\ user = None
    /\ authLogged = FALSE
    /\ guard = NoGuard
    /\ st = IdleCall
    /\ pending = {}
    /\ log = <<>>
    /\ response = NoResponse
    /\ MediaInit
    /\ \E setup \in CameraSetups, md \in [CamIds -> BOOLEAN] :
          cameras = [i \in CamIds |->
                        IF setup[i] = "absent" THEN NoCamera
                        ELSE [motion_detection |-> md[i]]
                                 @@ Camera(setup[i], TRUE)]
    /\ settings = [ENABLE_REBOOT |-> FALSE, SMB_SHARES |-> FALSE]

NextRelay ==
    \/ \E username \in ClientUsernames, key \in Passwords, camera_id \in CamIds,
          event \in RelayEvents, missing \in MissingOutcomes :
          RelayEvent(username, key, camera_id, event, missing)
    \/ \E username \in ClientUsernames, key \in Passwords, camera_id \in CamIds,
          missing \in MissingOutcomes :
          RemCamera(username, key, camera_id, missing)
    \/ EndRequest

SpecRelay == InitRelay /\ [][NextRelay]_vars

\* the event the step serves was accepted for camera i: relayed by the admin
\* for a camera that is local, and, for a start event, has motion detection on
Accepted(i, event) ==
    /\ st'.op = "relay_event" /\ st.phase = "idle" /\ st'.camera_id = i
    /\ user' = "admin"
    /\ log' # <<>> /\ log'[1].arg = event
    /\ local_motion_camera(cameras[i])
    /\ event = "start" => cameras[i].motion_detection

\* C39: the motion-detected flag of a camera is set by an accepted start
\* event, cleared by an accepted stop event, and left as it is by every other
\* step: events for cameras that are not local or not known, start events
\* for cameras with motion detection disabled, unknown event names and
\* unauthorized events change no flag. A flag is true only for a camera whose
\* last accepted event was a start event that found it local with motion
\* detection enabled.
C39_FlagFollowsAcceptedEvents ==
    /\ [](\A i \in DOMAIN detected : i \in CamIds)
    /\ [][\A i \in CamIds :
            /\ Accepted(i, "start") => is_motion_detected(detected', i)
            /\ Accepted(i, "stop") => ~is_motion_detected(detected', i)
            /\ ~(Accepted(i, "start") \/ Accepted(i, "stop")) =>
                  (is_motion_detected(detected', i)
                      <=> is_motion_detected(detected, i))
            /\ ~(\E j \in CamIds : Accepted(j, "start") \/ Accepted(j, "stop"))
                  => detected' = detected]_vars

\* a flag is still true after its camera was removed, and an unknown event
\* for a camera whose flag is true has been answered
C39_Witness ==
    /\ st.op = "relay_event" /\ st.phase = "returned" /\ user = "admin"
    /\ log # <<>> /\ log[1].arg = "bogus"
    /\ is_motion_detected(detected, st.camera_id)
    /\ cameras[3 - st.camera_id] = NoCamera
    /\ is_motion_detected(detected, 3 - st.camera_id)

C39_WitnessStop ==
    /\ st.op = "relay_event" /\ st.phase = "returned" /\ user = "admin"
    /\ log # <<>> /\ log[1].arg = "stop"
    /\ st.camera_id \in DOMAIN detected /\ ~detected[st.camera_id]
    /\ \E j \in CamIds \ {st.camera_id} : is_motion_detected(detected, j)

(***************************************************************************)
(* SpecNormal: every handler that writes (the configuration, a camera, the *)
(* media, a motion-detected flag, the host's power state) and the camera   *)
(* listing, requested by callers who do not hold the admin credentials     *)
(***************************************************************************)
\* the callers whose role cannot be admin: they do not name the admin, or
\* do not sign with the admin password
NormalCallers ==
    {c \in ClientUsernames \X Passwords :
        ~(c[1] = DefaultMain.admin_username /\ c[2] = DefaultMain.admin_password)}

PowerOps == {"shutdown", "reboot", "suspend"}

\* variant: the handler is wrapped by auth() without admin=True
Power_any_role(username, key, op) ==
    /\ st.phase = "idle"
    /\ LET role == Role("POST", "/power/" \o op, "", username, key)
           call == NewCall("power", "single", 0, <<>>)
           k == Ctx(call)
           done == [kind |-> "empty"]
       IN  IF ~auth(role, FALSE, FALSE) THEN Reject(call, role, TRUE)
           ELSE IF op = "shutdown"
           THEN Return(Respond(Call(k, "", "add_timeout(2s, powerctl.shut_down)",
                                    0, TRUE), done), role)
           ELSE IF op = "reboot"
           THEN Return(Respond(Call(k, "", "add_timeout(2s, powerctl.reboot)",
                                    0, TRUE), done), role)
           ELSE Return(Respond(k, done), role)

\* POST /power/<op> (handlers.py 1424-1437)
Power(username, key, op) ==
    /\ st.phase = "idle"
    /\ LET role == Role("POST", "/power/" \o op, "", username, key)
           call == NewCall("power", "single", 0, <<>>)
           k == Ctx(call)
           done == [kind |-> "empty"]
       IN  IF ~auth(role, TRUE, FALSE) THEN Reject(call, role, TRUE)
           ELSE IF op = "shutdown"
           THEN Return(Respond(Call(k, "", "add_timeout(2s, powerctl.shut_down)",
                                    0, TRUE), done), role)
           ELSE IF op = "reboot"
           THEN Return(Respond(Call(k, "", "add_timeout(2s, powerctl.reboot)",
                                    0, TRUE), done), role)
           ELSE Return(Respond(k, done), role)

NextNormal ==
    \/ \E c \in NormalCallers, ui \in MainPayloads : SetMainConfig(c[1], c[2], ui)
    \/ \E c \in NormalCallers, camera_id \in CamIds, ui \in CameraPayloads,
          smb_start \in SmbAnswers :
          SetCameraConfig(c[1], c[2], camera_id, ui, smb_start)
    \/ \E c \in NormalCallers, ui_config \in BulkMappings,
          smb_start \in SmbAnswers :
          SetBulkConfig(c[1], c[2], ui_config, smb_start)
    \/ \E c \in NormalCallers, camera_id \in CamIds,
          controls \in PreviewControls, missing \in MissingOutcomes :
          SetPreview(c[1], c[2], camera_id, controls, missing)
    \/ \E c \in NormalCallers, proto \in DeviceKinds, smb_start \in SmbAnswers :
          AddCamera(c[1], c[2], proto, smb_start)
    \/ \E c \in NormalCallers, camera_id \in CamIds,
          missing \in MissingOutcomes :
          RemCamera(c[1], c[2], camera_id, missing)
    \/ \E c \in NormalCallers, camera_id \in CamIds,
          failure \in DeleteOutcomes :
          PictureDelete(c[1], c[2], camera_id, failure)
    \/ \E c \in NormalCallers, camera_id \in CamIds, event \in RelayEvents,
          missing \in MissingOutcomes :
          RelayEvent(c[1], c[2], camera_id, event, missing)
    \/ \E c \in NormalCallers, op \in PowerOps : Power(c[1], c[2], op)
    \/ \E c \in NormalCallers, proto \in ListProtos, force \in BOOLEAN :
          ListCameras(c[1], c[2], proto, force)
    \/ \E p \in pending, remote_enabled \in BOOLEAN, error \in RemoteErrors :
          ListCamerasCompletion(p, remote_enabled, error)
    \/ \E p \in pending, error \in RemoteErrors : ListRemoteCompletion(p, error)
    \/ EndRequest

SpecNormal == InitList /\ [][NextNormal]_vars

\* the collaborator calls that remove a camera, delete media, or schedule a
\* reboot or a shutdown
Forbidden ==
    {"config.rem_camera", "config.add_camera", "config.set_main",
     "mediafiles.del_media_content", "remote.del_media_content",
     "remote.set_config", "motionctl.stop", "motionctl.start",
     "motionctl._motion_detected", "add_timeout(2s, powerctl.shut_down)",
     "add_timeout(2s, powerctl.reboot)"}

\* the step changes nothing but, possibly, camera records
NothingButCameras ==
    /\ user' # "admin"
    /\ main' = main
    /\ detected' = detected
    /\ \A i \in CamIds : cameras'[i].proto = cameras[i].proto
    /\ \A j \in DOMAIN log' : log'[j].op \notin Forbidden

\* the step lowers the enabled flag of the mirror of remote camera i, in the
\* reconciliation of a camera listing
Reconciles(i) ==
    /\ st'.op = "list_cameras"
    /\ remote_camera(cameras[i])
    /\ cameras[i].enabled
    /\ cameras'[i] = [cameras[i] EXCEPT !.enabled = FALSE]

\* C34 (as stated): no request of a caller whose role is not admin changes a
\* stored configuration record (main or camera), removes a camera, deletes
\* media, changes a motion-detected flag or schedules a reboot or a shutdown.
C34_NonAdminChangesNothing ==
    [][NothingButCameras /\ cameras' = cameras]_vars

\* C34 (amended): no request of a caller whose role is not admin changes a
\* stored configuration record (main or camera), other than a camera listing
\* lowering to false the enabled flag of a remote camera's record in
\* reconciliation; none removes a camera, deletes media, changes a
\* motion-detected flag or schedules a reboot or a shutdown.
C34_NonAdminOnlyReconciles ==
    [][/\ NothingButCameras
       /\ \A i \in CamIds : cameras'[i] = cameras[i] \/ Reconciles(i)]_vars

\* a caller with the normal role has asked for the listing, and the listing
\* has stored the record of a remote camera with its enabled flag lowered
C34_Witness ==
    /\ st.op = "list_cameras" /\ st.phase = "returned"
    /\ user = "normal"
    /\ \E j \in DOMAIN log :
          /\ log[j].op = "config.set_camera"
          /\ ~cameras[log[j].id].enabled

\* a caller without the admin role has asked for a reboot and was turned away
C34_WitnessRejected ==
    /\ st.op = "power" /\ st.phase = "returned"
    /\ user # "admin"
    /\ response = Unauthorized(TRUE)

(***************************************************************************)
(* SpecMirror: a camera listing awaiting its peers while another handler   *)
(* object serves a set_config for one camera                               *)
(***************************************************************************)
\* the closure state of the concurrent set_config, kept with its request
SetSlot(phase, camera_id, k) ==
    [phase |-> phase, op |-> "set_config", camera_id |-> camera_id, key |-> 0,
     st |-> k.st, log |-> k.log, response |-> k.response]

\* the concurrent handler returns: the store is what it left, its own
\* closure state stays with its request
ReturnSlot(r, camera_id, k) ==
    /\ main' = k.main
    /\ cameras' = k.cameras
    /\ reqs' = [reqs EXCEPT ![r] =
                  SetSlot(IF k.pending = {} THEN "answered" ELSE "await_push",
                          camera_id, k)]
    /\ UNCHANGED <<settings, areq, user, authLogged, guard, st, pending, log,
                   response, job, cache, peer>>
    /\ UNCHANGED liveVars

\* POST /config/<camera_id>/set (handlers.py 247-426) served between the
\* listing's read of the records and the completion of a peer
SetConfigDuringListing(r, username, key, camera_id, ui, smb_start) ==
    /\ reqs[r].phase = "idle"
    /\ \E p \in pending : p.op = "list_cameras"
    /\ LET role == Role("POST", "/config/" \o IdStr(camera_id) \o "/set", ui,
                        username, key)
           call == NewCall("set_config", "single", camera_id, <<IdStr(camera_id)>>)
           k == [Ctx(call) EXCEPT !.pending = {}]
       IN  IF ~auth(role, TRUE, FALSE)
           THEN ReturnSlot(r, camera_id, Respond(k, Unauthorized(TRUE)))
           ELSE ReturnSlot(r, camera_id,
                           set_camera_config(k, IdStr(camera_id), camera_id, ui,
                                             smb_start))

\* on_finish_wrapper of the concurrent set_config (handlers.py 277-278)
SetConfigPushCompletion(r, error, smb_start) ==
    /\ reqs[r].phase = "await_push"
    /\ LET slot == reqs[r]
           k == [main |-> main, cameras |-> cameras, pending |-> {},
                 log |-> slot.log, response |-> slot.response, st |-> slot.st]
       IN  ReturnSlot(r, slot.camera_id,
                      Completed(k, IdStr(slot.camera_id), error, FALSE,
                                smb_start))

\* the client of the concurrent set_config has its answer
EndSetConfig(r) ==
    /\ reqs[r].phase = "answered"
    /\ reqs' = [reqs EXCEPT ![r] = IdleReq]
    /\ UNCHANGED <<main, cameras, settings, areq, user, authLogged, guard, st,
                   pending, log, response, job, cache, peer>>
    /\ UNCHANGED liveVars

\* remote.get_config has completed for one remote camera of the listing, when
\* config.get_camera hands out the store's own record instead of a copy: the
\* callback sees the record as the store holds it now
ListCamerasCompletionShared(p, remote_enabled, error) ==
    /\ p \in pending
    /\ p.op = "list_cameras"
    /\ Return(list_check_finished(
                on_response(Resume(p), p.id, cameras[p.id], remote_enabled,
                            error)), user)

NextMirror ==
    \/ \E client \in MediaClients, force \in BOOLEAN :
          ListCameras(client[1], client[2], None, force)
    \/ \E p \in pending, remote_enabled \in BOOLEAN, error \in RemoteErrors :
          ListCamerasCompletion(p, remote_enabled, error)
    \/ \E p \in pending, remote_enabled \in BOOLEAN, error \in RemoteErrors :
          ListCamerasCompletionShared(p, remote_enabled, error)
    \/ \E r \in OneSlot, username \in ClientUsernames, key \in Passwords,
          camera_id \in CamIds, ui \in CameraPayloads, smb_start \in SmbAnswers :
          SetConfigDuringListing(r, username, key, camera_id, ui, smb_start)
    \/ \E r \in OneSlot, error \in RemoteErrors, smb_start \in SmbAnswers :
          SetConfigPushCompletion(r, error, smb_start)
    \/ \E r \in OneSlot : EndSetConfig(r)
    \/ EndRequest

SpecMirror == InitList /\ [][NextMirror]_vars

\* the step is the completion of the peer of camera i for the listing
ListingCompletes(i) ==
    /\ st.op = "list_cameras"
    /\ \E p \in pending : p.op = "list_cameras" /\ p.id = i /\ p \notin pending'

\* a set_config for camera i was processed after the listing read its record
\* and before the peer's completion: it wrote the mirror's enabled flag
SetConfigBetween(i) ==
    \E r \in OneSlot :
       /\ reqs[r].phase \in {"await_push", "answered"}
       /\ reqs[r].camera_id = i
       /\ \E j \in DOMAIN reqs[r].log : reqs[r].log[j].op = "config.set_camera"

\* C35: the reconciliation write of a camera listing loses no concurrent
\* update: when a set_config for remote camera C was processed between the
\* listing's read of the record and the completion of C's peer, the record
\* stored after the completion is the record that set_config stored, or that
\* record with its enabled flag lowered to false.
C35_ReconciliationKeepsUpdate ==
    [][\A i \in CamIds :
          (ListingCompletes(i) /\ SetConfigBetween(i)) =>
              \/ cameras'[i] = cameras[i]
              \/ cameras'[i] = [cameras[i] EXCEPT !.enabled = FALSE]]_vars

\* the listing read the mirror enabled, a set_config disabled it, and the
\* peer, enabled, has then answered the listing
C35_Witness ==
    /\ st.op = "list_cameras" /\ st.phase = "returned" /\ pending = {}
    /\ \E i \in CamIds :
          /\ SetConfigBetween(i)
          /\ remote_camera(cameras[i]) /\ ~cameras[i].enabled
          /\ \E j \in DOMAIN st.entries :
                /\ st.entries[j].id = i
                /\ st.entries[j].local = TRUE
                /\ st.entries[j].peer = "enabled"

(***************************************************************************)
(* SpecAuth: authentication and the authorization guard                    *)
(***************************************************************************)
AuthMethods == {"GET", "POST"}
AuthUris == {"/config/list", "/config/0/set"}
AuthBodies == {"", "{}"}
AuthPasswords == {"", "pa", "pb"}
AuthUsernames == {None, "", "_", "admin", "user"}
AuthSignatures ==
    {NoSignature} \cup
    {compute_signature(m, u, b, k) :
        m \in AuthMethods, u \in AuthUris, b \in AuthBodies, k \in AuthPasswords}

AuthMains ==
    [admin_username : {"admin"}, admin_password : {"", "pa"},
     normal_username : {"user"}, normal_password : AuthPasswords,
     sys : {0}]

InitAuth ==
    /\ main \in AuthMains
    /\ cameras = [i \in CamIds |-> NoCamera]
    /\ settings = [ENABLE_REBOOT |-> FALSE, SMB_SHARES |-> FALSE]
    /\ areq = NoRequest
    /\ user = None
    /\ authLogged = FALSE
    /\ guard = NoGuard
    /\ st = IdleCall
    /\ pending = {}
    /\ log = <<>>
    /\ response = NoResponse
    /\ MediaInit

\* a request arrives and tornado evaluates self.current_user
Authenticate(method, uri, body, username, signature, login) ==
    /\ areq.phase = "idle"
    /\ areq' = [phase |-> "authenticated", method |-> method, uri |-> uri,
                body |-> body, username |-> username, signature |-> signature,
                login |-> login]
    /\ LET r == get_current_user(main, method, uri, body, username, signature, login)
       IN  /\ user' = r.role
           /\ authLogged' = r.logged
    /\ UNCHANGED <<main, cameras, settings, guard, st, pending, log, response>>
    /\ UNCHANGED mediaVars
    /\ UNCHANGED liveVars

\* a handler method decorated with @BaseHandler.auth(admin, prompt) whose body
\* calls a collaborator and answers with finish_json() (as LoginHandler.get);
\* inline_admin is the request's _admin=true argument
GuardedCall(admin, prompt, inline_admin) ==
    /\ areq.phase = "authenticated"
    /\ areq' = [areq EXCEPT !.phase = "responded"]
    /\ IF auth(user, admin, inline_admin)
       THEN /\ guard' = [ran |-> TRUE, admin |-> admin, prompt |-> prompt,
                         inline_admin |-> inline_admin, executed |-> TRUE]
            /\ log' = Append(log, [op |-> "func"])
            /\ response' = [kind |-> "json", body |-> "{}"]
       ELSE /\ guard' = [ran |-> TRUE, admin |-> admin, prompt |-> prompt,
                         inline_admin |-> inline_admin, executed |-> FALSE]
            /\ log' = log
            /\ response' = Unauthorized(prompt)
    /\ UNCHANGED <<main, cameras, settings, user, authLogged, st, pending>>
    /\ UNCHANGED mediaVars
    /\ UNCHANGED liveVars

\* the request is over; the next one starts from a clean handler object
EndAuthRequest ==
    /\ areq.phase = "responded"
    /\ areq' = NoRequest
    /\ user' = None
    /\ authLogged' = FALSE
    /\ guard' = NoGuard
    /\ log' = <<>>
    /\ response' = NoResponse
    /\ UNCHANGED <<main, cameras, settings, st, pending>>
    /\ UNCHANGED mediaVars
    /\ UNCHANGED liveVars

NextAuth ==
    \/ \E method \in AuthMethods, uri \in AuthUris, body \in AuthBodies,
          username \in AuthUsernames, signature \in AuthSignatures,
          login \in BOOLEAN :
          Authenticate(method, uri, body, username, signature, login)
    \/ \E admin \in BOOLEAN, prompt \in BOOLEAN, inline_admin \in BOOLEAN :
          GuardedCall(admin, prompt, inline_admin)
    \/ EndAuthRequest

SpecAuth == InitAuth /\ [][NextAuth]_vars

\* the signature the request would carry if signed with the admin secret
AdminSignature ==
    compute_signature(areq.method, areq.uri, areq.body, main.admin_password)

NormalSignature ==
    compute_signature(areq.method, areq.uri, areq.body, main.normal_password)

Authenticated == areq.phase \in {"authenticated", "responded"}

\* C1 (as stated): the role is admin if and only if the supplied signature
\* matches the signature computed over (method, uri, body) with the admin
\* secret, whatever the supplied username is.
C1_AdminIffSignature ==
    Authenticated => ((user = "admin") <=> (areq.signature = AdminSignature))

\* C1 (amended): the role is admin if and only if the supplied username is the
\* configured admin username and the supplied signature matches the signature
\* computed over (method, uri, body) with the admin secret.
C1_AdminIffUsernameAndSignature ==
    Authenticated =>
        ((user = "admin") <=>
            (areq.username = main.admin_username /\ areq.signature = AdminSignature))

C1_Witness ==
    /\ Authenticated
    /\ user = "admin"
    /\ areq.signature = AdminSignature
    /\ main.admin_password = "pa"

\* C2: the guard runs the wrapped operation only when the role is not None and
\* (the role is admin, or the operation does not require admin and the request
\* does not carry _admin=true); otherwise the body is not executed, nothing is
\* called or changed, and the response is {error: unauthorized, prompt: prompt}.
C2_Guard ==
    [][guard'.ran /\ ~guard.ran =>
        LET allowed == /\ user # None
                       /\ \/ user = "admin"
                          \/ (~guard'.admin /\ ~guard'.inline_admin)
        IN  /\ guard'.executed <=> allowed
            /\ allowed => log' # log
            /\ ~allowed =>
                 /\ response' = [kind |-> "json", error |-> "unauthorized",
                                 prompt |-> guard'.prompt]
                 /\ UNCHANGED <<main, cameras, settings, st, pending, log>>]_vars

C2_Witness ==
    /\ guard.ran
    /\ ~guard.executed
    /\ user = "normal"
    /\ guard.inline_admin
    /\ ~guard.admin
    /\ response = Unauthorized(FALSE)

\* C3: with no normal secret configured and no username supplied, the role is
\* normal, whatever the signature, method, uri, body and admin credentials are.
C3_OpenAccess ==
    (Authenticated /\ areq.username = None /\ Falsy(main.normal_password))
        => user = "normal"

C3_Witness ==
    /\ Authenticated
    /\ areq.username = None
    /\ Falsy(main.normal_password)
    /\ areq.signature = AdminSignature
    /\ user = "normal"

OpenAccess == Falsy(areq.username) /\ Falsy(main.normal_password)

MatchesAdmin ==
    areq.username = main.admin_username /\ areq.signature = AdminSignature

MatchesNormal ==
    areq.username = main.normal_username /\ areq.signature = NormalSignature

\* C4: a request matching neither credential, outside open access, gets the
\* role None whether or not _login is set; _login only decides whether the
\* failure is logged (the same request with the flag flipped gets the same role).
C4_FailureIsNone ==
    Authenticated =>
        /\ (~MatchesAdmin /\ ~MatchesNormal /\ ~OpenAccess) => user = None
        /\ authLogged => (areq.login /\ user = None)
        /\ get_current_user(main, areq.method, areq.uri, areq.body, areq.username,
                            areq.signature, ~areq.login).role = user

C4_Witness ==
    /\ Authenticated
    /\ ~MatchesAdmin /\ ~MatchesNormal /\ ~OpenAccess
    /\ areq.login
    /\ authLogged
    /\ user = None

\* the role of the request served, had it arrived with (method, uri, body)
\* and everything else as it is
RoleWith(method, uri, body) ==
    get_current_user(main, method, uri, body, areq.username, areq.signature,
                     areq.login).role

\* C33: when a request has been accepted as admin, the same username and
\* signature with another method, another uri or another body are not
\* accepted as admin.
C33_SignatureBindsRequest ==
    (Authenticated /\ user = "admin") =>
        /\ \A method \in AuthMethods \ {areq.method} :
              RoleWith(method, areq.uri, areq.body) # "admin"
        /\ \A uri \in AuthUris \ {areq.uri} :
              RoleWith(areq.method, uri, areq.body) # "admin"
        /\ \A body \in AuthBodies \ {areq.body} :
              RoleWith(areq.method, areq.uri, body) # "admin"

C33_Witness ==
    /\ Authenticated
    /\ user = "admin"
    /\ areq.body = ""
    /\ main.admin_password = "pa"
    /\ RoleWith(areq.method, areq.uri, "{}") = None

====
